---- MODULE Spec2Model ----
(***************************************************************************)
(* A model of the GitHub crawler: the coverage-driven QueryGenerator       *)
(* (src/src/application/query_generator.py), the CrawlerService that runs  *)
(* the queries of a batch under a semaphore                                *)
(* (src/src/application/crawler_service.py) and the CrawlerOrchestrator    *)
(* loop (src/src/application/orchestrator.py).                             *)
(***************************************************************************)
EXTENDS Integers, Sequences, FiniteSets, TLC

VARIABLES
    query_generator,  \* QueryGenerator.state of the lineage's current generator
    queries,          \* the list returned by the last generate_batch
    issued_keys,      \* history: the combination keys of all strategies returned
    issued_count,     \* history: the number of strategies returned
    receiver_unchanged, \* history: no call so far changed the generator it was made on
    config,           \* the Config of the run
    stub,             \* the API stub: the rateLimit.remaining values and the star
                      \* counts it reports
    db,               \* the repositories table: id -> [full_name, stars]
    semaphore,        \* CrawlerService.semaphore: the free permits
    batch,            \* the execute_batch call: its arguments, position and result
    tasks,            \* per strategy of the batch: the execute_query coroutine's locals
    results,          \* per strategy of the batch: what gather collected
    hist,             \* history, per query: what the API stub and the storage saw
    orch,             \* CrawlerOrchestrator.run: its position and locals
    crawl_runs        \* the crawl_runs table: the coverage reports saved

genVars == <<query_generator, queries, issued_keys, issued_count, receiver_unchanged>>

crawlVars == <<db, semaphore, batch, tasks, results, hist>>

vars == <<genVars, config, stub, crawlVars, orch, crawl_runs>>

\* Optional[QueryStrategy]: the absent strategy
None == [none |-> TRUE]

Min(a, b) == IF a <= b THEN a ELSE b

SeqToSet(s) == { s[i] : i \in DOMAIN s }

MapSeq(s, F(_)) == [i \in 1..Len(s) |-> F(s[i])]

RECURSIVE SumOver(_, _)
SumOver(f, S) ==
    IF S = {} THEN 0
    ELSE LET x == CHOOSE y \in S : TRUE IN f[x] + SumOver(f, S \ {x})

(***************************************************************************)
(* Bounds of the model.                                                    *)
(***************************************************************************)
MaxBatchSize == 2     \* largest batch_size passed to generate_batch
MaxReposFound == 1    \* largest repos_found passed to update_coverage
MaxCoverage == 2      \* update_coverage is not applied past this counter value
MaxIssued == 6        \* generate_batch is not called once this many were issued
MaxStrategies == 2    \* most strategies handed to one execute_batch call
MaxBatches == 2       \* the orchestrator starts no batch after this many

(***************************************************************************)
(* domain/entities.py: SearchDimension, and the catalogs of the model.     *)
(***************************************************************************)
SearchDimension(name, values, is_primary) ==
    [name |-> name, values |-> values, is_primary |-> is_primary]

Catalog2x2 ==
    << SearchDimension("base", <<"is:public">>, TRUE),
       SearchDimension("stars", <<"stars:0..10", "stars:11..50">>, FALSE),
       SearchDimension("size", <<"size:1..100", "size:101..1000">>, FALSE) >>

Catalog1x2 ==
    << SearchDimension("base", <<"is:public">>, TRUE),
       SearchDimension("size", <<"size:1..100", "size:>10000">>, FALSE) >>

Catalogs == { Catalog2x2, Catalog1x2 }

\* the dimensions of the shipped catalog, in its order, with fewer values each
Catalog4 ==
    << SearchDimension("base", <<"is:public">>, TRUE),
       SearchDimension("stars", <<"stars:0..10", "stars:11..50">>, FALSE),
       SearchDimension("created", <<"created:<2015-01-01", "created:>2023-01-01">>, FALSE),
       SearchDimension("size", <<"size:1..100", "size:101..1000">>, FALSE),
       SearchDimension("activity", <<"archived:true">>, FALSE) >>

\* the same dimensions with one value each but for the first
Catalog4Narrow ==
    << SearchDimension("base", <<"is:public">>, TRUE),
       SearchDimension("stars", <<"stars:0..10", "stars:11..50">>, FALSE),
       SearchDimension("created", <<"created:<2015-01-01">>, FALSE),
       SearchDimension("size", <<"size:1..100">>, FALSE),
       SearchDimension("activity", <<"archived:true">>, FALSE) >>

(***************************************************************************)
(* A dict is a sequence of <<key, value>> pairs in insertion order.        *)
(***************************************************************************)
DictSet(d, k, v) ==
    IF \E i \in DOMAIN d : d[i][1] = k
    THEN [i \in DOMAIN d |-> IF d[i][1] = k THEN <<k, v>> ELSE d[i]]
    ELSE Append(d, <<k, v>>)

RECURSIVE DictSetAll(_, _)
DictSetAll(d, items) ==
    IF items = <<>> THEN d
    ELSE DictSetAll(DictSet(d, items[1][1], items[1][2]), Tail(items))

\* frozenset(dimensions_used.items())
ComboKey(dimensions_used) == SeqToSet(dimensions_used)

\* QueryBuilder.build_query: " ".join(dimensions_used.values())
build_query(dimensions_used) == MapSeq(dimensions_used, LAMBDA kv : kv[2])

QueryStrategy(query, dims, priority) ==
    [query |-> query, dimensions |-> dims, priority |-> priority]

(***************************************************************************)
(* CoverageStats: dimension name -> (value -> count).                      *)
(***************************************************************************)
create_initial_coverage_stats(dimensions) ==
    LET names == { dimensions[i].name : i \in DOMAIN dimensions }
        dimOf(n) == dimensions[CHOOSE i \in DOMAIN dimensions : dimensions[i].name = n]
    IN [n \in names |-> [v \in SeqToSet(dimOf(n).values) |-> 0]]

\* CoverageStats.update
CoverageUpdateAssigns(dimension_stats, dimension, value, count) ==
    IF dimension \in DOMAIN dimension_stats /\ value \in DOMAIN dimension_stats[dimension]
    THEN [dimension_stats EXCEPT ![dimension][value] = count]
    ELSE dimension_stats

CoverageUpdate(dimension_stats, dimension, value, count) ==
    IF dimension \in DOMAIN dimension_stats /\ value \in DOMAIN dimension_stats[dimension]
    THEN [dimension_stats EXCEPT ![dimension][value] = @ + count]
    ELSE dimension_stats

\* stats.get(v, 0) on coverage.dimension_stats.get(dimension, {})
StatsGet(dimension_stats, dimension, value) ==
    IF dimension \in DOMAIN dimension_stats /\ value \in DOMAIN dimension_stats[dimension]
    THEN dimension_stats[dimension][value]
    ELSE 0

QueryGeneratorState(dimensions, used_combinations, coverage_stats) ==
    [dimensions |-> dimensions,
     used_combinations |-> used_combinations,
     coverage_stats |-> coverage_stats]

\* The state of the object a call was made on, after the call that returned a
\* new object: with_used_combination builds a new frozenset (line 206),
\* CoverageStats.update copies every inner dict before it adds (line 18) and
\* with_updated_coverage builds a new state (line 218), so it is the state before.
ReceiverAfterInPlace(before, returned) == returned

ReceiverAfter(before, returned) == before

with_used_combination_forgotten(state, combo) == state

with_used_combination(state, combo) ==
    [state EXCEPT !.used_combinations = @ \cup {combo}]

with_updated_coverage(state, dimension, value, count) ==
    [state EXCEPT !.coverage_stats = CoverageUpdate(@, dimension, value, count)]

(***************************************************************************)
(* QueryBuilder.calculate_dimension_coverage: for each non-primary         *)
(* dimension, in catalog order, total_uses / len(values). The ratio is     *)
(* kept as the pair (total, len) and compared by cross-multiplication.     *)
(***************************************************************************)
calculate_dimension_coverage(coverage, dimensions) ==
    LET nonPrimary == SelectSeq(dimensions, LAMBDA d : ~d.is_primary)
        ratio(d) ==
            IF d.name \in DOMAIN coverage
            THEN [name |-> d.name,
                  total |-> SumOver(coverage[d.name], DOMAIN coverage[d.name]),
                  len |-> IF Len(d.values) > 0 THEN Len(d.values) ELSE 1]
            ELSE [name |-> d.name, total |-> 0,
                  len |-> IF Len(d.values) > 0 THEN Len(d.values) ELSE 1]
    IN MapSeq(nonPrimary, ratio)

RatioLE(a, b) == a.total * b.len <= b.total * a.len

\* sorted(coverage.items(), key=lambda x: x[1]): a stable sort, lowest first
SortedByCoverageCatalogOrder(items) == items

RECURSIVE SortedByCoverage(_)
SortedByCoverage(items) ==
    IF items = <<>> THEN <<>>
    ELSE LET n == Len(items)
             x == items[n]
             s == SortedByCoverage(SubSeq(items, 1, n - 1))
             k == Cardinality({ i \in DOMAIN s : RatioLE(s[i], x) })
         IN SubSeq(s, 1, k) \o <<x>> \o SubSeq(s, k + 1, Len(s))

\* QueryBuilder.find_least_used_value: min(values, key=...) is the first minimum
find_least_used_value(coverage, dimension, values) ==
    LET cnt(i) == StatsGet(coverage, dimension, values[i])
        idx == CHOOSE i \in DOMAIN values :
                   /\ \A j \in DOMAIN values : cnt(i) <= cnt(j)
                   /\ \A j \in 1..(i - 1) : cnt(j) > cnt(i)
    IN values[idx]

PrimaryItems(dimensions) ==
    DictSetAll(<<>>, MapSeq(SelectSeq(dimensions, LAMBDA d : d.is_primary),
                            LAMBDA d : <<d.name, d.values[1]>>))

\* other_dims[:2]
complementary_dims_last_two(other_dims) ==
    SubSeq(other_dims, Len(other_dims) - Min(2, Len(other_dims)) + 1, Len(other_dims))

complementary_dims(other_dims) == SubSeq(other_dims, 1, Min(2, Len(other_dims)))

(***************************************************************************)
(* QueryGenerator._create_targeted_query: <<query or None, new state>>.    *)
(***************************************************************************)
create_targeted_query(state, target_dim_name) ==
    LET found == SelectSeq(state.dimensions, LAMBDA d : d.name = target_dim_name)
    IN IF found = <<>> THEN <<None, state>>
       ELSE
         LET target_dim == found[1]
             least_used_value ==
                 find_least_used_value(state.coverage_stats, target_dim_name,
                                       target_dim.values)
             other_dims ==
                 SelectSeq(state.dimensions,
                           LAMBDA d : ~d.is_primary /\ d.name # target_dim_name)
             firstTwo == complementary_dims(other_dims)
             dimensions_used ==
                 DictSetAll(
                     DictSet(PrimaryItems(state.dimensions),
                             target_dim_name, least_used_value),
                     MapSeq(firstTwo, LAMBDA d :
                         <<d.name,
                           find_least_used_value(state.coverage_stats, d.name, d.values)>>))
             combo_key == ComboKey(dimensions_used)
         IN IF combo_key \in state.used_combinations
            THEN <<None, state>>
            ELSE << QueryStrategy(build_query(dimensions_used), dimensions_used,
                                  10 - Len(dimensions_used)),
                    with_used_combination(state, combo_key) >>

(***************************************************************************)
(* QueryGenerator._create_random_query. One attempt draws                  *)
(* random.sample(other_dims, min(3, N)) and one random.choice per selected *)
(* dimension; RandomDraws is the set of dicts one attempt can build.       *)
(***************************************************************************)
max_attempts == 50

\* the sequences of k distinct elements of S: what random.sample can return
RECURSIVE Samples(_, _)
Samples(S, k) ==
    IF k = 0 THEN { <<>> }
    ELSE UNION { { <<x>> \o rest : rest \in Samples(S \ {x}, k - 1) } : x \in S }

\* the dicts obtained by adding, for each selected dimension in turn, one of its values
RECURSIVE WithChoices(_, _)
WithChoices(d, selected_dims) ==
    IF selected_dims = <<>> THEN { d }
    ELSE UNION { WithChoices(DictSet(d, selected_dims[1].name, selected_dims[1].values[i]),
                             Tail(selected_dims))
                 : i \in DOMAIN selected_dims[1].values }

RandomDrawsOfTwo(state) ==
    LET other_dims == SelectSeq(state.dimensions, LAMBDA d : ~d.is_primary)
        num_dims_to_select == Min(2, Len(other_dims))
    IN UNION { WithChoices(PrimaryItems(state.dimensions), selected_dims)
               : selected_dims \in Samples(SeqToSet(other_dims), num_dims_to_select) }

RandomDraws(state) ==
    LET other_dims == SelectSeq(state.dimensions, LAMBDA d : ~d.is_primary)
        num_dims_to_select == Min(3, Len(other_dims))
    IN UNION { WithChoices(PrimaryItems(state.dimensions), selected_dims)
               : selected_dims \in Samples(SeqToSet(other_dims), num_dims_to_select) }

(***************************************************************************)
(* The outcomes of the max_attempts attempts: the first draw whose key is  *)
(* unused is returned with priority 5, so every unused draw is a possible  *)
(* outcome (drawn first); no strategy is the outcome when every attempt    *)
(* draws a used key, which needs a used key among the draws.               *)
(***************************************************************************)
create_random_query(state) ==
    LET draws == RandomDraws(state)
        fresh == { d \in draws : ComboKey(d) \notin state.used_combinations }
        stale == { d \in draws : ComboKey(d) \in state.used_combinations }
    IN { << QueryStrategy(build_query(d), d, 5),
            with_used_combination(state, ComboKey(d)) >> : d \in
              IF max_attempts >= 1 THEN fresh ELSE {} }
       \cup (IF max_attempts = 0 \/ stale # {} THEN { <<None, state>> } ELSE {})

(***************************************************************************)
(* The loop of _create_random_query attempt by attempt. An attempt that    *)
(* draws an unused key returns its strategy; one that draws a used key is  *)
(* followed by the next attempt, and after max_attempts of them the loop   *)
(* is left with no strategy. RandomAttemptsFrom is the set of the ways the *)
(* loop can end, <<a strategy is returned, attempts made>>, and            *)
(* create_random_query_attempts gives with it the strategies an attempt    *)
(* can return.                                                             *)
(***************************************************************************)
RECURSIVE RandomAttemptsFrom(_, _, _)
RandomAttemptsFrom(can_find, can_collide, attempt) ==
    IF attempt >= max_attempts THEN { <<FALSE, attempt>> }
    ELSE (IF can_find THEN { <<TRUE, attempt + 1>> } ELSE {})
         \cup (IF can_collide
                THEN RandomAttemptsFrom(can_find, can_collide, attempt + 1)
                ELSE {})

create_random_query_attempts(state) ==
    LET draws == RandomDraws(state)
        fresh == { d \in draws : ComboKey(d) \notin state.used_combinations }
        stale == { d \in draws : ComboKey(d) \in state.used_combinations }
    IN [found |-> { QueryStrategy(build_query(d), d, 5) : d \in fresh },
        ends |-> RandomAttemptsFrom(fresh # {}, stale # {}, 0)]

(***************************************************************************)
(* QueryGenerator._generate_single_query: the set of possible              *)
(* <<query or None, new state>> results.                                   *)
(***************************************************************************)
RECURSIVE FirstTargeted(_, _)
FirstTargeted(state, sorted_dims) ==
    IF sorted_dims = <<>> THEN <<None, state>>
    ELSE LET r == create_targeted_query(state, sorted_dims[1].name)
         IN IF r[1] # None THEN r ELSE FirstTargeted(state, Tail(sorted_dims))

generate_single_query_random_first(state) ==
    LET random == { r \in create_random_query(state) : r[1] # None }
        coverage == calculate_dimension_coverage(state.coverage_stats, state.dimensions)
    IN IF random # {} THEN random
       ELSE { FirstTargeted(state, SortedByCoverage(coverage)) }

generate_single_query_any_target(state) ==
    LET coverage == calculate_dimension_coverage(state.coverage_stats, state.dimensions)
        targeted == { create_targeted_query(state, coverage[i].name) : i \in DOMAIN coverage }
        made == { r \in targeted : r[1] # None }
    IN IF made # {} THEN made ELSE create_random_query(state)

generate_single_query(state) ==
    LET coverage == calculate_dimension_coverage(state.coverage_stats, state.dimensions)
        sorted_dims == SortedByCoverage(coverage)
        targeted == FirstTargeted(state, sorted_dims)
    IN IF targeted[1] # None THEN { targeted } ELSE create_random_query(state)

(***************************************************************************)
(* QueryGenerator.generate_batch: the set of possible                      *)
(* <<queries, state of the new generator, attempts>> results, where        *)
(* attempts counts the _generate_single_query calls the loop made.         *)
(***************************************************************************)
RECURSIVE GenerateLoopSkipsFailure(_, _, _, _)
GenerateLoopSkipsFailure(current_state, remaining, acc, attempts) ==
    IF remaining = 0 THEN { <<acc, current_state, attempts>> }
    ELSE UNION { GenerateLoopSkipsFailure(r[2], remaining - 1,
                     IF r[1] # None THEN Append(acc, r[1]) ELSE acc, attempts + 1)
                 : r \in generate_single_query(current_state) }

RECURSIVE GenerateLoop(_, _, _, _)
GenerateLoop(current_state, remaining, acc, attempts) ==
    IF remaining = 0 THEN { <<acc, current_state, attempts>> }
    ELSE UNION { IF r[1] # None
                 THEN GenerateLoop(r[2], remaining - 1, Append(acc, r[1]), attempts + 1)
                 ELSE { <<acc, r[2], attempts + 1>> }
                 : r \in generate_single_query(current_state) }

generate_batch(state, batch_size) == GenerateLoop(state, batch_size, <<>>, 0)

(***************************************************************************)
(* QueryGenerator.update_coverage: the state of the new generator.         *)
(***************************************************************************)
RECURSIVE UpdateLoop(_, _, _)
UpdateLoop(new_state, items, repos_found) ==
    IF items = <<>> THEN new_state
    ELSE UpdateLoop(with_updated_coverage(new_state, items[1][1], items[1][2], repos_found),
                    Tail(items), repos_found)

update_coverage(state, strategy, repos_found) ==
    UpdateLoop(state, strategy.dimensions, repos_found)

MaxCounter(state) ==
    LET cs == state.coverage_stats
        all == UNION { { cs[d][v] : v \in DOMAIN cs[d] } : d \in DOMAIN cs }
    IN IF all = {} THEN 0 ELSE CHOOSE m \in all : \A x \in all : x <= m

(***************************************************************************)
(* config.py: Config. DefaultConfig holds the defaults of the fields the   *)
(* model reads; a run is given a Config, and the configurations of the     *)
(* model differ from the default in the fields that size the state space.  *)
(***************************************************************************)
DefaultConfig ==
    [target_total_repos |-> 1000000,
     max_pages_per_query |-> 10,
     max_concurrent_queries |-> 15,
     rate_limit_threshold |-> 50,
     rate_limit_wait_time |-> 60,
     server_error_wait_time |-> 10,
     stagnation_threshold |-> 5,
     coverage_report_interval |-> 10]

CrawlConfigs ==
    { [DefaultConfig EXCEPT !.max_pages_per_query = p, !.max_concurrent_queries = c]
      : p \in { 1, 2 }, c \in { 1, 2 } }

(***************************************************************************)
(* domain/value_objects.py: CrawlerStats and CrawlerStats.increment, which *)
(* adds the keyword arguments that name a field and ignores the others.    *)
(***************************************************************************)
CrawlerStats(total, successful, failed, pauses) ==
    [total_api_calls |-> total, successful_queries |-> successful,
     failed_queries |-> failed, rate_limit_pauses |-> pauses]

increment(stats, kwargs) ==
    [k \in DOMAIN stats |-> IF k \in DOMAIN kwargs THEN stats[k] + kwargs[k] ELSE stats[k]]

\* the statistics execute_batch is called with
InputStats == { CrawlerStats(0, 0, 0, 0), CrawlerStats(4, 2, 1, 1) }

(***************************************************************************)
(* infrastructure/repo_storage.py: the repositories table and its upsert.  *)
(***************************************************************************)
Repository(id, full_name, stars) == [id |-> id, full_name |-> full_name, stars |-> stars]

\* INSERT ... ON CONFLICT(id) DO UPDATE SET stars = EXCLUDED.stars
UpsertDoNothing(table, r) ==
    IF r.id \in DOMAIN table
    THEN table
    ELSE [i \in DOMAIN table \cup {r.id} |->
             IF i = r.id THEN [full_name |-> r.full_name, stars |-> r.stars]
             ELSE table[i]]

Upsert(table, r) ==
    IF r.id \in DOMAIN table
    THEN [table EXCEPT ![r.id].stars = r.stars]
    ELSE [i \in DOMAIN table \cup {r.id} |->
             IF i = r.id THEN [full_name |-> r.full_name, stars |-> r.stars]
             ELSE table[i]]

RECURSIVE save_repositories(_, _)
save_repositories(table, repos) ==
    IF repos = <<>> THEN table
    ELSE save_repositories(Upsert(table, repos[1]), Tail(repos))

count_repositories(table) == Cardinality(DOMAIN table)

EmptyTable == [i \in {} |-> 0]

(***************************************************************************)
(* The API stub: the translated GitHubSearchResult of a successful call    *)
(* (anti_corruption/github_translator.py), and the errors of a failed one. *)
(***************************************************************************)
NullCursor == "null"

\* the stub's cursors are chained: the endCursor of the page a request returns
\* is the successor of the cursor the request carried
EndCursorAfter(cursor) ==
    CASE cursor = NullCursor -> "c1"
      [] cursor = "c1" -> "c2"
      [] OTHER -> "c3"

\* the pages of the stub: an empty one and one of three entities
StubPages3 ==
    << Repository(1, "a/one", 1), Repository(2, "b/two", 1),
       Repository(3, "c/three", 1) >>

StubPages == { <<>>, StubPages3 }

GitHubSearchResult(repositories, has_next_page, end_cursor, remaining) ==
    [repositories |-> repositories, has_next_page |-> has_next_page,
     end_cursor |-> end_cursor, rate_limit |-> [remaining |-> remaining]]

\* the page with the stargazer count the API reports at the time of the call
WithStars(page, stars) == [i \in DOMAIN page |-> [page[i] EXCEPT !.stars = stars]]

SearchResults(cursor) ==
    { GitHubSearchResult(WithStars(page, stars), more, EndCursorAfter(cursor), rem) :
        page \in StubPages, more \in BOOLEAN, rem \in stub.remaining,
        stars \in stub.stars }

\* a stub whose budget is around the threshold, one whose budget is ample, and
\* one whose repositories gain a star between calls
BoundaryStub(cfg) ==
    [remaining |-> { cfg.rate_limit_threshold - 1, cfg.rate_limit_threshold },
     stars |-> { 1 }]

AmpleStub(cfg) == [remaining |-> { cfg.rate_limit_threshold + 1 }, stars |-> { 1 }]

StarStub(cfg) == [remaining |-> { cfg.rate_limit_threshold + 1 }, stars |-> { 1, 2 }]

\* the TransportQueryErrors of the stub: str(e) as a sequence of words, and
\* whether the message holds one of the phrases of an access restriction
ErrorMessages ==
    { [text |-> <<"Resource", "not", "accessible", "by", "integration">>,
       restricted |-> TRUE],
      [text |-> <<"API", "rate", "limit", "exceeded">>, restricted |-> TRUE],
      [text |-> <<"FORBIDDEN">>, restricted |-> TRUE],
      [text |-> <<"Something", "went", "wrong">>, restricted |-> FALSE],
      [text |-> <<"Parse", "error", "on", "query">>, restricted |-> FALSE] }

\* str.lower() on the words of the messages
LowerWord(w) ==
    CASE w = "Resource" -> "resource"
      [] w = "API" -> "api"
      [] w = "FORBIDDEN" -> "forbidden"
      [] w = "Something" -> "something"
      [] w = "Parse" -> "parse"
      [] OTHER -> w

\* GitHubTranslator.is_access_error: a pattern occurs in the lowered message
error_patterns ==
    { <<"ip", "allow", "list", "enabled">>, <<"must", "have", "push", "access">>,
      <<"resource", "not", "accessible">>, <<"rate", "limit", "exceeded">>,
      <<"forbidden">>, <<"saml", "sso">>, <<"blocked">>,
      <<"private", "repository">>, <<"requires", "authentication">> }

is_access_error_case_sensitive(error_message) ==
    \E pattern \in error_patterns :
       \E i \in 1..Len(error_message) :
          /\ i + Len(pattern) - 1 <= Len(error_message)
          /\ SubSeq(error_message, i, i + Len(pattern) - 1) = pattern

is_access_error(error_message) ==
    LET error_lower == MapSeq(error_message, LowerWord)
    IN \E pattern \in error_patterns :
          \E i \in 1..Len(error_lower) :
             /\ i + Len(pattern) - 1 <= Len(error_lower)
             /\ SubSeq(error_lower, i, i + Len(pattern) - 1) = pattern

(***************************************************************************)
(* The coroutines of CrawlerService.execute_query. A task is "acquire"     *)
(* (waiting for the semaphore), "request" (in the loop, about to call      *)
(* search_repositories), "server_sleep" (in the loop, sleeping after a     *)
(* server error), "done" (returned) or "raised".                           *)
(***************************************************************************)
Slots == 1..(MaxStrategies + 1)

NoTask ==
    [pc |-> "none", cursor |-> NullCursor, repos_collected |-> 0,
     pages_processed |-> 0, current_stats |-> CrawlerStats(0, 0, 0, 0), sleeping |-> 0]

NoResult == [kind |-> "none"]

\* what the stub and the storage saw of a query: the successful responses below
\* the rate-limit threshold, the access-restriction errors, the entities the stub
\* delivered, the entities and pages handed to save_repositories, the star count
\* of the last page saved, the seconds of rate-limit sleep, the cursor the last
\* request carried, the last answer ("none", "server_error", "access",
\* "query_error", "unexpected", "empty", "last_page", "more"), and the endCursor
\* of the last page received that was not empty
NoHist ==
    [low_responses |-> 0, access_errors |-> 0, delivered |-> 0, persisted |-> 0,
     pages_saved |-> 0, saved_stars |-> 0, rate_slept |-> 0,
     last_request |-> NullCursor, last_answer |-> "none",
     last_end_cursor |-> NullCursor]

IdleBatch ==
    [pc |-> "idle", strategies |-> <<>>, stats |-> CrawlerStats(0, 0, 0, 0),
     total_repos |-> 0, final_stats |-> CrawlerStats(0, 0, 0, 0)]

BatchTasks == 1..Len(batch.strategies)

\* CrawlerOrchestrator.run, lines 20-25: the locals before the loop, and the
\* history of the loop (iterations begun, generate_batch calls, warnings and
\* periodic reports printed)
InitialOrch ==
    [pc |-> "loop", batch_count |-> 0, last_count |-> 0, stagnation_counter |-> 0,
     current_count |-> 0, stats |-> CrawlerStats(0, 0, 0, 0),
     iterations |-> 0, generate_calls |-> 0, warnings |-> 0, reports_printed |-> 0,
     unchanged_run |-> 0]

InLoop(t) == tasks[t].pc \in { "request", "server_sleep" }

\* asyncio.Semaphore: acquire passes while a permit is free
CanAcquireOrEqual(permits) == permits >= 0

CanAcquire(permits) == permits > 0

\* lines 31-34: the locals at the start of _execute_single_query
InitialLocals(stats) ==
    [NoTask EXCEPT !.current_stats = increment(stats, [total_api_calls |-> 1])]

\* line 36: the loop condition
LoopCondition(locals) == locals.pages_processed < config.max_pages_per_query

\* line 43: what the query returns on an access restriction
OnAccessError(locals) ==
    <<0, increment(locals.current_stats, [failed_queries |-> 1])>>

\* lines 46-48: the locals during the sleep after a server error
OnServerErrorCountsPage(locals) ==
    [locals EXCEPT !.pc = "server_sleep", !.sleeping = config.server_error_wait_time,
                   !.pages_processed = @ + 1]

OnServerErrorCountsCall(locals) ==
    [locals EXCEPT !.pc = "server_sleep", !.sleeping = config.server_error_wait_time,
                   !.current_stats = increment(@, [total_api_calls |-> 1])]

OnServerErrorResetsCursor(locals) ==
    [locals EXCEPT !.pc = "server_sleep", !.sleeping = config.server_error_wait_time,
                   !.cursor = NullCursor]

OnServerError(locals) ==
    [locals EXCEPT !.pc = "server_sleep", !.sleeping = config.server_error_wait_time]

\* line 52: the rate-limit test
RateLimitedInclusive(result) ==
    result.rate_limit.remaining <= config.rate_limit_threshold

RateLimited(result) == result.rate_limit.remaining < config.rate_limit_threshold

(***************************************************************************)
(* lines 51-70: a successful response. The result is what happens to the   *)
(* locals, the seconds slept, the entities saved and whether a break left  *)
(* the loop.                                                               *)
(***************************************************************************)
OnPageFollowsNextFlag(locals, result) ==
    LET paused == RateLimited(result)
        stats1 == IF paused
                  THEN increment(locals.current_stats, [rate_limit_pauses |-> 1])
                  ELSE locals.current_stats
        n == Len(result.repositories)
        saved == [locals EXCEPT !.current_stats = stats1,
                                !.repos_collected = @ + n,
                                !.pages_processed = IF n > 0 THEN @ + 1 ELSE @]
    IN [locals |-> IF result.has_next_page
                   THEN [saved EXCEPT !.cursor = result.end_cursor] ELSE saved,
        slept |-> IF paused THEN config.rate_limit_wait_time ELSE 0,
        saved |-> result.repositories,
        break |-> ~result.has_next_page]

OnPage(locals, result) ==
    LET paused == RateLimited(result)
        stats1 == IF paused
                  THEN increment(locals.current_stats, [rate_limit_pauses |-> 1])
                  ELSE locals.current_stats
        n == Len(result.repositories)
        saved == [locals EXCEPT !.current_stats = stats1,
                                !.repos_collected = @ + n,
                                !.pages_processed = @ + 1]
    IN IF n = 0
       THEN [locals |-> [locals EXCEPT !.current_stats = stats1],
             slept |-> IF paused THEN config.rate_limit_wait_time ELSE 0,
             saved |-> <<>>, break |-> TRUE]
       ELSE [locals |-> IF result.has_next_page
                        THEN [saved EXCEPT !.cursor = result.end_cursor] ELSE saved,
             slept |-> IF paused THEN config.rate_limit_wait_time ELSE 0,
             saved |-> result.repositories,
             break |-> ~result.has_next_page]

\* lines 72-75: what the query returns after the loop
EndOfQueryAlwaysSuccessful(locals) ==
    <<locals.repos_collected,
      increment(locals.current_stats, [successful_queries |-> 1])>>

EndOfQuery(locals) ==
    <<locals.repos_collected,
      IF locals.repos_collected > 0
      THEN increment(locals.current_stats, [successful_queries |-> 1])
      ELSE locals.current_stats>>

\* the return of execute_query with the tuple ret: the with block frees the permit
Return(t, ret) ==
    /\ tasks' = [tasks EXCEPT ![t] = [NoTask EXCEPT !.pc = "done"]]
    /\ results' = [results EXCEPT ![t] =
                      [kind |-> "tuple", repos |-> ret[1], stats |-> ret[2]]]
    /\ semaphore' = semaphore + 1

\* an exception leaves execute_query: the with block frees the permit
Raise(t) ==
    /\ tasks' = [tasks EXCEPT ![t] = [NoTask EXCEPT !.pc = "raised"]]
    /\ results' = [results EXCEPT ![t] = [kind |-> "exception"]]
    /\ semaphore' = semaphore + 1

\* the next loop test, or the end of the query when a break left the loop
Continue(t, locals, break) ==
    IF ~break /\ LoopCondition(locals)
    THEN /\ tasks' = [tasks EXCEPT ![t] = [locals EXCEPT !.pc = "request", !.sleeping = 0]]
         /\ UNCHANGED <<results, semaphore>>
    ELSE Return(t, EndOfQuery(locals))

\* execute_batch, lines 88-92: no task for an empty list, else one per strategy
ExecuteBatchCall(strategies, stats) ==
    /\ batch.pc = "idle"
    /\ IF strategies = <<>>
       THEN batch' = [batch EXCEPT !.pc = "returned", !.strategies = strategies,
                                   !.stats = stats, !.total_repos = 0,
                                   !.final_stats = stats]
       ELSE batch' = [batch EXCEPT !.pc = "gather", !.strategies = strategies,
                                   !.stats = stats]
    /\ tasks' = [t \in Slots |-> IF t <= Len(strategies)
                                 THEN [NoTask EXCEPT !.pc = "acquire"] ELSE NoTask]
    /\ results' = [t \in Slots |-> NoResult]
    /\ hist' = [t \in Slots |-> NoHist]
    /\ UNCHANGED <<semaphore, db>>

\* execute_query, line 23, and _execute_single_query up to the first loop test
Acquire(t) ==
    /\ t \in BatchTasks
    /\ tasks[t].pc = "acquire"
    /\ CanAcquire(semaphore)
    /\ LET locals == InitialLocals(batch.stats)
       IN IF LoopCondition(locals)
          THEN /\ tasks' = [tasks EXCEPT ![t] = [locals EXCEPT !.pc = "request"]]
               /\ semaphore' = semaphore - 1
               /\ UNCHANGED results
          ELSE /\ tasks' = [tasks EXCEPT ![t] = [NoTask EXCEPT !.pc = "done"]]
               /\ results' = [results EXCEPT ![t] =
                     [kind |-> "tuple", repos |-> EndOfQuery(locals)[1],
                      stats |-> EndOfQuery(locals)[2]]]
               /\ UNCHANGED semaphore
    /\ UNCHANGED <<batch, db, hist>>

Answered(t, answer) ==
    [hist[t] EXCEPT !.last_request = tasks[t].cursor, !.last_answer = answer]

\* lines 40-44: a TransportQueryError: an access restriction ends the query, any
\* other is raised again
SearchQueryError(t) ==
    /\ t \in BatchTasks
    /\ tasks[t].pc = "request"
    /\ \E e \in ErrorMessages :
         /\ IF is_access_error(e.text)
            THEN Return(t, OnAccessError(tasks[t]))
            ELSE Raise(t)
         /\ hist' = [hist EXCEPT ![t] =
               IF e.restricted
               THEN [Answered(t, "access") EXCEPT !.access_errors = @ + 1]
               ELSE Answered(t, "query_error")]
    /\ UNCHANGED <<batch, db>>

\* any other exception of the call (not a gql transport error) leaves the query
SearchUnexpectedError(t) ==
    /\ t \in BatchTasks
    /\ tasks[t].pc = "request"
    /\ Raise(t)
    /\ hist' = [hist EXCEPT ![t] = Answered(t, "unexpected")]
    /\ UNCHANGED <<batch, db>>

\* lines 46-48: a TransportServerError starts the sleep
SearchServerError(t) ==
    /\ t \in BatchTasks
    /\ tasks[t].pc = "request"
    /\ tasks' = [tasks EXCEPT ![t] = OnServerError(tasks[t])]
    /\ hist' = [hist EXCEPT ![t] = Answered(t, "server_error")]
    /\ UNCHANGED <<batch, db, semaphore, results>>

\* line 49: the sleep is over, continue
ServerErrorWake(t) ==
    /\ t \in BatchTasks
    /\ tasks[t].pc = "server_sleep"
    /\ Continue(t, tasks[t], FALSE)
    /\ UNCHANGED <<batch, db, hist>>

(***************************************************************************)
(* lines 51-70: a successful call. The rate-limit sleep and the save touch *)
(* nothing another task reads but the table, so the step runs from the     *)
(* response to the next loop test; the sleep is recorded in hist.          *)
(***************************************************************************)
SearchPage(t) ==
    /\ t \in BatchTasks
    /\ tasks[t].pc = "request"
    /\ \E result \in SearchResults(tasks[t].cursor) :
         LET n == Len(result.repositories)
             r == OnPage(tasks[t], result)
             answer == IF n = 0 THEN "empty"
                       ELSE IF result.has_next_page THEN "more" ELSE "last_page"
         IN /\ db' = save_repositories(db, r.saved)
            /\ hist' = [hist EXCEPT ![t] =
                  [Answered(t, answer) EXCEPT
                      !.low_responses =
                          IF result.rate_limit.remaining < config.rate_limit_threshold
                          THEN @ + 1 ELSE @,
                      !.delivered = @ + n,
                      !.rate_slept = @ + r.slept,
                      !.persisted = @ + Len(r.saved),
                      !.pages_saved = IF r.saved # <<>> THEN @ + 1 ELSE @,
                      !.saved_stars = IF r.saved # <<>> THEN r.saved[1].stars ELSE @,
                      !.last_end_cursor = IF n > 0 THEN result.end_cursor ELSE @]]
            /\ Continue(t, r.locals, r.break)
    /\ UNCHANGED batch

\* lines 102-107: the delta of one query's statistics
StatsDeltaAbsolute(updated_stats, stats) ==
    [total_api_calls |-> updated_stats.total_api_calls,
     successful_queries |-> updated_stats.successful_queries,
     failed_queries |-> updated_stats.failed_queries,
     rate_limit_pauses |-> updated_stats.rate_limit_pauses]

StatsDelta(updated_stats, stats) ==
    [total_api_calls |-> updated_stats.total_api_calls - stats.total_api_calls,
     successful_queries |-> updated_stats.successful_queries - stats.successful_queries,
     failed_queries |-> updated_stats.failed_queries - stats.failed_queries,
     rate_limit_pauses |-> updated_stats.rate_limit_pauses - stats.rate_limit_pauses]

\* execute_batch, lines 94-111: the merge of what gather collected, in task order
RECURSIVE MergeResults(_, _, _, _)
MergeResults(rs, stats, total_repos, final_stats) ==
    IF rs = <<>> THEN <<total_repos, final_stats>>
    ELSE LET result == rs[1]
         IN IF result.kind = "tuple"
            THEN MergeResults(Tail(rs), stats, total_repos + result.repos,
                              increment(final_stats, StatsDelta(result.stats, stats)))
            ELSE MergeResults(Tail(rs), stats, total_repos, final_stats)

\* line 92: gather(*tasks, return_exceptions=True) is over when every task is
GatherDoneAtFirstException ==
    \/ \A t \in BatchTasks : tasks[t].pc \in { "done", "raised" }
    \/ \E t \in BatchTasks : tasks[t].pc = "raised"

GatherDone == \A t \in BatchTasks : tasks[t].pc \in { "done", "raised" }

\* gather has every result: execute_batch returns
ExecuteBatchReturn ==
    /\ batch.pc = "gather"
    /\ GatherDone
    /\ LET merged == MergeResults([t \in BatchTasks |-> results[t]],
                                  batch.stats, 0, batch.stats)
       IN batch' = [batch EXCEPT !.pc = "returned", !.total_repos = merged[1],
                                 !.final_stats = merged[2]]
    /\ UNCHANGED <<db, semaphore, tasks, results, hist>>

TaskStep(t) ==
    \/ Acquire(t)
    \/ SearchQueryError(t)
    \/ SearchUnexpectedError(t)
    \/ SearchServerError(t)
    \/ ServerErrorWake(t)
    \/ SearchPage(t)

\* a strategy the generator builds for the first catalog
StubStrategy ==
    create_targeted_query(
        QueryGeneratorState(Catalog2x2, {}, create_initial_coverage_stats(Catalog2x2)),
        "stars")[1]

(***************************************************************************)
(* One execute_batch call of a CrawlerService, for any configuration,      *)
(* any number of strategies and any scheduling of its queries.             *)
(***************************************************************************)
CrawlInit ==
    /\ config \in CrawlConfigs
    /\ stub = BoundaryStub(config)
    /\ query_generator =
          QueryGeneratorState(Catalog2x2, {}, create_initial_coverage_stats(Catalog2x2))
    /\ queries = <<>>
    /\ issued_keys = {}
    /\ issued_count = 0
    /\ receiver_unchanged = TRUE
    /\ db = EmptyTable
    /\ semaphore = config.max_concurrent_queries
    /\ batch = IdleBatch
    /\ tasks = [t \in Slots |-> NoTask]
    /\ results = [t \in Slots |-> NoResult]
    /\ hist = [t \in Slots |-> NoHist]
    /\ orch = InitialOrch
    /\ crawl_runs = <<>>

CrawlExecuteBatch ==
    /\ \E n \in 0..MaxStrategies : \E stats \in InputStats :
          ExecuteBatchCall([i \in 1..n |-> StubStrategy], stats)
    /\ UNCHANGED <<genVars, config, stub, orch, crawl_runs>>

CrawlTask ==
    /\ \E t \in Slots : TaskStep(t)
    /\ UNCHANGED <<genVars, config, stub, orch, crawl_runs>>

CrawlReturn ==
    /\ ExecuteBatchReturn
    /\ UNCHANGED <<genVars, config, stub, orch, crawl_runs>>

CrawlNext == CrawlExecuteBatch \/ CrawlTask \/ CrawlReturn

SpecCrawl == CrawlInit /\ [][CrawlNext]_vars

(***************************************************************************)
(* One execute_batch call against a stub whose repositories change their   *)
(* star count between calls: the saves of the queries meet in the table.   *)
(***************************************************************************)
StoreInit ==
    /\ config = [DefaultConfig EXCEPT !.max_pages_per_query = 2,
                                      !.max_concurrent_queries = 2]
    /\ stub = StarStub(config)
    /\ query_generator =
          QueryGeneratorState(Catalog2x2, {}, create_initial_coverage_stats(Catalog2x2))
    /\ queries = <<>>
    /\ issued_keys = {}
    /\ issued_count = 0
    /\ receiver_unchanged = TRUE
    /\ db = EmptyTable
    /\ semaphore = config.max_concurrent_queries
    /\ batch = IdleBatch
    /\ tasks = [t \in Slots |-> NoTask]
    /\ results = [t \in Slots |-> NoResult]
    /\ hist = [t \in Slots |-> NoHist]
    /\ orch = InitialOrch
    /\ crawl_runs = <<>>

StoreExecuteBatch ==
    /\ \E n \in 0..MaxStrategies :
          ExecuteBatchCall([i \in 1..n |-> StubStrategy], CrawlerStats(0, 0, 0, 0))
    /\ UNCHANGED <<genVars, config, stub, orch, crawl_runs>>

StoreNext == StoreExecuteBatch \/ CrawlTask \/ CrawlReturn

SpecStore == StoreInit /\ [][StoreNext]_vars

\* the event loop runs every task that is ready
CrawlTaskOf(t) ==
    /\ TaskStep(t)
    /\ UNCHANGED <<genVars, config, stub, orch, crawl_runs>>

SpecCrawlFair ==
    /\ SpecCrawl
    /\ \A t \in Slots : WF_vars(CrawlTaskOf(t))
    /\ WF_vars(CrawlExecuteBatch)
    /\ WF_vars(CrawlReturn)

(***************************************************************************)
(* QueryGenerator.get_coverage_report. coverage_percentage is kept as the  *)
(* pair (values covered * 100, number of values).                          *)
(***************************************************************************)
get_coverage_report(state) ==
    LET nonPrimary == SelectSeq(state.dimensions, LAMBDA d : ~d.is_primary)
        data(d) == IF d.name \in DOMAIN state.coverage_stats
                   THEN state.coverage_stats[d.name] ELSE [v \in {} |-> 0]
        covered(d) == { v \in DOMAIN data(d) : data(d)[v] > 0 }
    IN [total_queries |-> Cardinality(state.used_combinations),
        dimension_coverage |->
            [n \in { nonPrimary[i].name : i \in DOMAIN nonPrimary } |->
                LET d == nonPrimary[CHOOSE i \in DOMAIN nonPrimary : nonPrimary[i].name = n]
                IN [values_covered |-> Cardinality(covered(d)),
                    total_values |-> Len(d.values),
                    coverage_percentage |->
                        IF Len(d.values) > 0
                        THEN <<Cardinality(covered(d)) * 100, Len(d.values)>>
                        ELSE <<0, 1>>,
                    repos_per_value |-> [v \in covered(d) |-> data(d)[v]]]]]

(***************************************************************************)
(* CrawlerOrchestrator.run. The loop is at "loop" (about to read the       *)
(* stored count), "batch" (awaiting execute_batch), "final" (left the      *)
(* loop, about to write the final report) or "done".                       *)
(***************************************************************************)
OrchConfigs ==
    { [DefaultConfig EXCEPT !.max_pages_per_query = 1, !.max_concurrent_queries = c,
                            !.target_total_repos = n, !.stagnation_threshold = 1,
                            !.coverage_report_interval = 2]
      : c \in { 1, 2 }, n \in { 3, 4 } }

\* line 35: the test that ends the crawl
TargetReachedStrictly(current_count) == current_count > config.target_total_repos

TargetReached(current_count) == current_count >= config.target_total_repos

\* lines 33-64: one pass from the top of the loop to the await of execute_batch
OrchIterate ==
    /\ orch.pc = "loop"
    /\ LET current_count == count_repositories(db)
           counted == [orch EXCEPT
                          !.current_count = current_count,
                          !.iterations = @ + 1,
                          !.unchanged_run =
                              IF orch.iterations >= 1 /\ current_count = orch.current_count
                              THEN @ + 1 ELSE 0]
       IN IF TargetReached(current_count)
          THEN /\ orch' = [counted EXCEPT !.pc = "final"]
               /\ UNCHANGED <<genVars, crawlVars>>
          ELSE
            LET unchanged == current_count = orch.last_count
                stagnation_counter ==
                    IF unchanged THEN orch.stagnation_counter + 1 ELSE 0
                warned == unchanged /\ stagnation_counter > config.stagnation_threshold
                checked == [counted EXCEPT
                               !.stagnation_counter = stagnation_counter,
                               !.warnings = IF warned THEN @ + 1 ELSE @,
                               !.last_count = current_count,
                               !.generate_calls = @ + 1]
            IN \E r \in generate_batch(query_generator, config.max_concurrent_queries) :
                  /\ queries' = r[1]
                  /\ query_generator' = r[2]
                  /\ issued_keys' = issued_keys \cup
                         { ComboKey(r[1][i].dimensions) : i \in DOMAIN r[1] }
                  /\ issued_count' = issued_count + Len(r[1])
                  /\ receiver_unchanged' =
                         (receiver_unchanged
                            /\ ReceiverAfter(query_generator, r[2]) = query_generator)
                  /\ IF r[1] = <<>>
                     THEN /\ orch' = [checked EXCEPT !.pc = "final"]
                          /\ UNCHANGED crawlVars
                     ELSE /\ orch.batch_count < MaxBatches
                          /\ orch' = [checked EXCEPT !.pc = "batch", !.batch_count = @ + 1]
                          /\ ExecuteBatchCall(r[1], orch.stats)
    /\ UNCHANGED <<config, stub, crawl_runs>>

OrchTask ==
    /\ orch.pc = "batch"
    /\ \E t \in Slots : TaskStep(t)
    /\ UNCHANGED <<genVars, config, stub, orch, crawl_runs>>

OrchBatchReturn ==
    /\ orch.pc = "batch"
    /\ ExecuteBatchReturn
    /\ UNCHANGED <<genVars, config, stub, orch, crawl_runs>>

\* lines 62-63: for query in queries: update_coverage(query, batch_repos // len(queries))
CoverageLoopFirstOnly(state, qs, repos_found) ==
    IF qs = <<>> THEN state ELSE update_coverage(state, qs[1], repos_found)

RECURSIVE CoverageLoop(_, _, _)
CoverageLoop(state, qs, repos_found) ==
    IF qs = <<>> THEN state
    ELSE CoverageLoop(update_coverage(state, qs[1], repos_found), Tail(qs), repos_found)

\* lines 72-73 and 78-83: the periodic report is printed, the crawl_runs table
\* is not written
PeriodicReportSaved(runs, report, total_repos) ==
    Append(runs, [coverage_report |-> report, total_repos |-> total_repos])

PeriodicReport(runs, report, total_repos) == runs

\* lines 59-74: execute_batch has returned (or raised, which the except catches)
OrchAfterBatch ==
    /\ orch.pc = "batch"
    /\ batch.pc \in { "returned", "raised" }
    /\ IF batch.pc = "returned"
       THEN LET updated == CoverageLoop(query_generator, queries,
                                       batch.total_repos \div Len(queries))
                periodic == orch.batch_count % config.coverage_report_interval = 0
            IN /\ query_generator' = updated
               /\ receiver_unchanged' =
                      (receiver_unchanged
                         /\ ReceiverAfter(query_generator, updated) = query_generator)
               /\ orch' = [orch EXCEPT
                     !.pc = "loop",
                     !.stats = batch.final_stats,
                     !.reports_printed = IF periodic THEN @ + 1 ELSE @]
               /\ crawl_runs' =
                      IF periodic
                      THEN PeriodicReport(crawl_runs, get_coverage_report(updated),
                                          orch.current_count)
                      ELSE crawl_runs
       ELSE /\ orch' = [orch EXCEPT !.pc = "loop"]
            /\ UNCHANGED <<query_generator, receiver_unchanged, crawl_runs>>
    /\ batch' = IdleBatch
    /\ tasks' = [t \in Slots |-> NoTask]
    /\ results' = [t \in Slots |-> NoResult]
    /\ hist' = [t \in Slots |-> NoHist]
    /\ UNCHANGED <<queries, issued_keys, issued_count, config, stub, db, semaphore>>

\* _print_final_report, lines 88-91
OrchFinalReport ==
    /\ orch.pc = "final"
    /\ LET final_count == count_repositories(db)
           final_report == get_coverage_report(query_generator)
       IN crawl_runs' = Append(crawl_runs,
              [coverage_report |-> final_report, total_repos |-> final_count])
    /\ orch' = [orch EXCEPT !.pc = "done"]
    /\ UNCHANGED <<genVars, config, stub, crawlVars>>

OrchInit ==
    /\ config \in OrchConfigs
    /\ stub = AmpleStub(config)
    /\ \E dims \in { Catalog1x2 } :
         query_generator =
             QueryGeneratorState(dims, {}, create_initial_coverage_stats(dims))
    /\ queries = <<>>
    /\ issued_keys = {}
    /\ issued_count = 0
    /\ receiver_unchanged = TRUE
    /\ db = EmptyTable
    /\ semaphore = config.max_concurrent_queries
    /\ batch = IdleBatch
    /\ tasks = [t \in Slots |-> NoTask]
    /\ results = [t \in Slots |-> NoResult]
    /\ hist = [t \in Slots |-> NoHist]
    /\ orch = InitialOrch
    /\ crawl_runs = <<>>

OrchNext ==
    OrchIterate \/ OrchTask \/ OrchBatchReturn \/ OrchAfterBatch \/ OrchFinalReport

SpecOrch == OrchInit /\ [][OrchNext]_vars

\* the loop goes on when an awaited storage call has returned: the count at the
\* start of an iteration (line 32) and the calls of the final report (87-90)
SpecOrchFair ==
    /\ SpecOrch
    /\ WF_vars(OrchIterate)
    /\ WF_vars(OrchFinalReport)

(***************************************************************************)
(* The generator lineage: generate_batch and update_coverage, each called  *)
(* on the generator the previous call returned, in any interleaving.       *)
(***************************************************************************)
GenInit ==
    /\ \E dims \in Catalogs :
         query_generator =
             QueryGeneratorState(dims, {}, create_initial_coverage_stats(dims))
    /\ queries = <<>>
    /\ issued_keys = {}
    /\ issued_count = 0
    /\ receiver_unchanged = TRUE
    /\ config = DefaultConfig
    /\ stub = BoundaryStub(config)
    /\ db = EmptyTable
    /\ semaphore = config.max_concurrent_queries
    /\ batch = IdleBatch
    /\ tasks = [t \in Slots |-> NoTask]
    /\ results = [t \in Slots |-> NoResult]
    /\ hist = [t \in Slots |-> NoHist]
    /\ orch = InitialOrch
    /\ crawl_runs = <<>>

GenGenerateBatch ==
    /\ issued_count < MaxIssued
    /\ \E batch_size \in 0..MaxBatchSize :
         \E r \in generate_batch(query_generator, batch_size) :
            /\ queries' = r[1]
            /\ query_generator' = r[2]
            /\ issued_keys' = issued_keys \cup
                   { ComboKey(r[1][i].dimensions) : i \in DOMAIN r[1] }
            /\ issued_count' = issued_count + Len(r[1])
            /\ receiver_unchanged' =
                   (receiver_unchanged /\ ReceiverAfter(query_generator, r[2]) = query_generator)
    /\ UNCHANGED <<config, stub, crawlVars, orch, crawl_runs>>

\* the dimensions of a strategy that is not of the catalog: a value the catalog
\* does not have, and a dimension it does not have
ForeignDimensions == << <<"size", "size:0">>, <<"language", "language:dart">> >>

\* update_coverage for a strategy of the catalog, one the generator returned or
\* any other the catalog allows, or for a strategy that is not of the catalog
GenUpdateCoverage ==
    \E d \in RandomDraws(query_generator) \cup
              { queries[i].dimensions : i \in DOMAIN queries } \cup
              { ForeignDimensions } :
       \E repos_found \in 0..MaxReposFound :
          LET strategy == QueryStrategy(build_query(d), d, 5)
              new == update_coverage(query_generator, strategy, repos_found)
          IN /\ MaxCounter(new) <= MaxCoverage
             /\ query_generator' = new
             /\ receiver_unchanged' =
                    (receiver_unchanged /\ ReceiverAfter(query_generator, new) = query_generator)
             /\ UNCHANGED <<queries, issued_keys, issued_count, config, stub, crawlVars,
                           orch, crawl_runs>>

GenNext == GenGenerateBatch \/ GenUpdateCoverage

SpecGen == GenInit /\ [][GenNext]_vars

(***************************************************************************)
(* Targeted construction on its own: _create_targeted_query for any target *)
(* name, on the generator the previous call returned, and update_coverage  *)
(* for the strategy it returned.                                           *)
(***************************************************************************)
TargetNames == { Catalog4[i].name : i \in DOMAIN Catalog4 } \cup { "language" }

TargetedInit ==
    /\ query_generator =
          QueryGeneratorState(Catalog4, {}, create_initial_coverage_stats(Catalog4))
    /\ queries = <<>>
    /\ issued_keys = {}
    /\ issued_count = 0
    /\ receiver_unchanged = TRUE
    /\ config = DefaultConfig
    /\ stub = BoundaryStub(config)
    /\ db = EmptyTable
    /\ semaphore = config.max_concurrent_queries
    /\ batch = IdleBatch
    /\ tasks = [t \in Slots |-> NoTask]
    /\ results = [t \in Slots |-> NoResult]
    /\ hist = [t \in Slots |-> NoHist]
    /\ orch = InitialOrch
    /\ crawl_runs = <<>>

TargetedCreate ==
    /\ issued_count < MaxIssued
    /\ \E target_dim_name \in TargetNames :
         LET r == create_targeted_query(query_generator, target_dim_name)
         IN /\ queries' = IF r[1] # None THEN <<r[1]>> ELSE <<>>
            /\ query_generator' = r[2]
            /\ issued_keys' = issued_keys \cup
                   (IF r[1] # None THEN { ComboKey(r[1].dimensions) } ELSE {})
            /\ issued_count' = issued_count + (IF r[1] # None THEN 1 ELSE 0)
            /\ receiver_unchanged' =
                   (receiver_unchanged /\ ReceiverAfter(query_generator, r[2]) = query_generator)
    /\ UNCHANGED <<config, stub, crawlVars, orch, crawl_runs>>

TargetedUpdateCoverage ==
    /\ queries # <<>>
    /\ \E repos_found \in 0..MaxReposFound :
         LET new == update_coverage(query_generator, queries[1], repos_found)
         IN /\ MaxCounter(new) <= MaxCoverage
            /\ query_generator' = new
            /\ receiver_unchanged' =
                   (receiver_unchanged /\ ReceiverAfter(query_generator, new) = query_generator)
    /\ UNCHANGED <<queries, issued_keys, issued_count, config, stub, crawlVars,
                   orch, crawl_runs>>

TargetedNext == TargetedCreate \/ TargetedUpdateCoverage

SpecTargeted == TargetedInit /\ [][TargetedNext]_vars

(***************************************************************************)
(* The generator lineage on the dimensions of the shipped catalog:         *)
(* generate_batch, and update_coverage for the strategies of the last      *)
(* batch.                                                                  *)
(* The lineage is asked for MaxIssued4 strategies in all.                  *)
(***************************************************************************)
MaxIssued4 == 3

Gen4Init ==
    /\ query_generator =
          QueryGeneratorState(Catalog4Narrow, {},
                              create_initial_coverage_stats(Catalog4Narrow))
    /\ queries = <<>>
    /\ issued_keys = {}
    /\ issued_count = 0
    /\ receiver_unchanged = TRUE
    /\ config = DefaultConfig
    /\ stub = BoundaryStub(config)
    /\ db = EmptyTable
    /\ semaphore = config.max_concurrent_queries
    /\ batch = IdleBatch
    /\ tasks = [t \in Slots |-> NoTask]
    /\ results = [t \in Slots |-> NoResult]
    /\ hist = [t \in Slots |-> NoHist]
    /\ orch = InitialOrch
    /\ crawl_runs = <<>>

Gen4GenerateBatch ==
    /\ \E batch_size \in 0..(MaxIssued4 - issued_count) :
         \E r \in generate_batch(query_generator, batch_size) :
            /\ queries' = r[1]
            /\ query_generator' = r[2]
            /\ issued_keys' = issued_keys \cup
                   { ComboKey(r[1][i].dimensions) : i \in DOMAIN r[1] }
            /\ issued_count' = issued_count + Len(r[1])
            /\ receiver_unchanged' =
                   (receiver_unchanged /\ ReceiverAfter(query_generator, r[2]) = query_generator)
    /\ UNCHANGED <<config, stub, crawlVars, orch, crawl_runs>>

\* orchestrator.py, lines 62-63: every strategy of the batch is credited with
\* the same number
Gen4UpdateCoverage ==
    /\ queries # <<>>
    /\ \E repos_found \in 0..MaxReposFound :
         LET new == CoverageLoop(query_generator, queries, repos_found)
         IN /\ MaxCounter(new) <= MaxCoverage
            /\ query_generator' = new
            /\ receiver_unchanged' =
                   (receiver_unchanged /\ ReceiverAfter(query_generator, new) = query_generator)
    /\ UNCHANGED <<queries, issued_keys, issued_count, config, stub, crawlVars,
                   orch, crawl_runs>>

Gen4Next == Gen4GenerateBatch \/ Gen4UpdateCoverage

SpecGen4 == Gen4Init /\ [][Gen4Next]_vars

(***************************************************************************)
(* C1: along one generator lineage no two strategies returned have the     *)
(* same combination key: the strategies returned so far are as many as     *)
(* their distinct keys, and the strategies of one batch differ pairwise.   *)
(***************************************************************************)
C1_NoKeyReturnedTwice ==
    /\ Cardinality(issued_keys) = issued_count
    /\ \A i, j \in DOMAIN queries :
          i # j => ComboKey(queries[i].dimensions) # ComboKey(queries[j].dimensions)

\* two batches and a coverage update in between have returned strategies made by
\* both constructions
C1_Witness ==
    /\ issued_count >= 3
    /\ MaxCounter(query_generator) > 0
    /\ \E i \in DOMAIN queries : queries[i].priority = 5

(***************************************************************************)
(* C2: the loop is left only when the count read at the start of an        *)
(* iteration is >= target_total_repos, and then that iteration generated   *)
(* and executed nothing, or when generate_batch returned an empty list,    *)
(* and then nothing was executed. Whatever the queries of the batches      *)
(* before did, nothing else leaves the loop.                               *)
(***************************************************************************)
C2_LoopExits ==
    orch.pc \in { "final", "done" } =>
       /\ batch.pc = "idle"
       /\ \A t \in Slots : tasks[t].pc = "none"
       /\ orch.current_count = count_repositories(db)
       /\ \/ /\ orch.current_count >= config.target_total_repos
             /\ orch.generate_calls = orch.iterations - 1
             /\ orch.batch_count = orch.generate_calls
          \/ /\ orch.current_count < config.target_total_repos
             /\ queries = <<>>
             /\ orch.generate_calls = orch.iterations
             /\ orch.batch_count = orch.generate_calls - 1

\* the loop went on to a second batch and to its end although a query of a
\* batch raised and another met an access restriction
C2_Witness ==
    /\ orch.pc = "done"
    /\ orch.batch_count = 2
    /\ orch.stats.failed_queries >= 1
    /\ orch.stats.total_api_calls < issued_count

(***************************************************************************)
(* C3: the queries inside their loop are never more than                   *)
(* max_concurrent_queries, and the free permits are always                 *)
(* max_concurrent_queries less the queries inside their loop, so a waiting *)
(* query can pass as soon as one inside returns or raises.                 *)
(***************************************************************************)
C3_ConcurrencyBound ==
    LET running == { t \in Slots : InLoop(t) }
    IN /\ Cardinality(running) <= config.max_concurrent_queries
       /\ semaphore = config.max_concurrent_queries - Cardinality(running)
       /\ \A t \in Slots :
             (tasks[t].pc = "acquire" /\ ~ENABLED Acquire(t))
                => Cardinality(running) = config.max_concurrent_queries

\* with one permit and two strategies, one query is inside its loop after the
\* other, which it waited for, has raised
C3_Witness ==
    /\ config.max_concurrent_queries = 1
    /\ Len(batch.strategies) = 2
    /\ \E t, u \in BatchTasks : tasks[t].pc = "raised" /\ InLoop(u)

(***************************************************************************)
(* C4: execute_batch never raises, it returns only when every query has    *)
(* returned or raised, and its totals are those of the queries that        *)
(* returned: a query that raised adds no repository and no statistic.      *)
(***************************************************************************)
C4_FailureIsolated ==
    /\ batch.pc # "raised"
    /\ batch.pc = "returned" =>
          LET returned == { t \in BatchTasks : tasks[t].pc = "done" }
              delta(t) == StatsDelta(results[t].stats, batch.stats)
          IN /\ \A t \in BatchTasks : tasks[t].pc \in { "done", "raised" }
             /\ \A t \in returned : results[t].kind = "tuple"
             /\ batch.total_repos =
                   SumOver([t \in returned |-> results[t].repos], returned)
             /\ batch.final_stats.total_api_calls = batch.stats.total_api_calls +
                   SumOver([t \in returned |-> delta(t).total_api_calls], returned)
             /\ batch.final_stats.successful_queries = batch.stats.successful_queries +
                   SumOver([t \in returned |-> delta(t).successful_queries], returned)
             /\ batch.final_stats.failed_queries = batch.stats.failed_queries +
                   SumOver([t \in returned |-> delta(t).failed_queries], returned)
             /\ batch.final_stats.rate_limit_pauses = batch.stats.rate_limit_pauses +
                   SumOver([t \in returned |-> delta(t).rate_limit_pauses], returned)

\* a batch has returned in which one query raised an unexpected error after it
\* had saved a page below the threshold, and its sibling collected repositories
C4_Witness ==
    /\ batch.pc = "returned"
    /\ \E t, u \in BatchTasks :
          /\ tasks[t].pc = "raised"
          /\ hist[t].last_answer = "unexpected"
          /\ hist[t].persisted > 0
          /\ hist[t].low_responses > 0
          /\ tasks[u].pc = "done"
          /\ results[u].repos > 0

(***************************************************************************)
(* C5: whatever the interleaving, execute_batch returns the sum of what    *)
(* the returned queries collected, and the input statistics plus one API   *)
(* call per returned query, one successful query per query that returned   *)
(* repositories, one failed query per access restriction and one pause per *)
(* response below the threshold. A batch of a query whose first call meets *)
(* an access restriction and a query that gets 3 entities and then an      *)
(* empty page gives 3 repositories, 1 failed and 1 successful query.       *)
(***************************************************************************)
C5_Collected(t) ==
    IF hist[t].last_answer = "access" THEN 0 ELSE hist[t].persisted

C5_Example ==
    /\ batch.pc = "returned"
    /\ Len(batch.strategies) = 2
    /\ \E t, u \in BatchTasks :
          /\ hist[t].last_answer = "access"
          /\ hist[t].delivered = 0
          /\ hist[u].last_answer = "empty"
          /\ hist[u].delivered = 3

C5_BatchTotals ==
    batch.pc = "returned" =>
       LET returned == { t \in BatchTasks : results[t].kind = "tuple" }
           fruitful == { t \in returned : C5_Collected(t) > 0 }
       IN /\ batch.total_repos =
                SumOver([t \in returned |-> C5_Collected(t)], returned)
          /\ batch.final_stats =
                increment(batch.stats,
                    [total_api_calls |-> Cardinality(returned),
                     successful_queries |-> Cardinality(fruitful),
                     failed_queries |->
                         SumOver([t \in returned |-> hist[t].access_errors], returned),
                     rate_limit_pauses |->
                         SumOver([t \in returned |-> hist[t].low_responses], returned)])
          /\ C5_Example =>
                /\ batch.total_repos = 3
                /\ batch.final_stats.failed_queries = batch.stats.failed_queries + 1
                /\ batch.final_stats.successful_queries =
                      batch.stats.successful_queries + 1

\* the example batch has returned, called with statistics that were not zero
C5_Witness ==
    /\ C5_Example
    /\ batch.stats.failed_queries > 0
    /\ batch.total_repos = 3

(***************************************************************************)
(* C6: a query whose call met an access restriction, on any page, has      *)
(* returned at once: it made no other call after it, it returned 0         *)
(* repositories, and its statistics are those of the input with one API    *)
(* call and one failed query more, and no successful query.                *)
(***************************************************************************)
C6_AccessErrorEndsQuery ==
    \A t \in BatchTasks :
       /\ hist[t].access_errors <= 1
       /\ hist[t].access_errors = 1 <=> hist[t].last_answer = "access"
       /\ hist[t].last_answer = "access" =>
             /\ tasks[t].pc = "done"
             /\ results[t].kind = "tuple"
             /\ results[t].repos = 0
             /\ results[t].stats.failed_queries = batch.stats.failed_queries + 1
             /\ results[t].stats.successful_queries = batch.stats.successful_queries
             /\ results[t].stats.total_api_calls = batch.stats.total_api_calls + 1

\* an access restriction on the second page, after a page was saved
C6_Witness ==
    \E t \in BatchTasks :
       /\ hist[t].last_answer = "access"
       /\ hist[t].pages_saved = 1
       /\ hist[t].last_request # NullCursor
       /\ results[t].kind = "tuple"

(***************************************************************************)
(* C7: after a server error the query sleeps server_error_wait_time and    *)
(* is then about to send the request again with the cursor of the request  *)
(* that failed; it is still in its loop with no result and no exception,   *)
(* no failed query is recorded and no page is counted, and this is so      *)
(* after every server error, however many came before.                     *)
(***************************************************************************)
C7_ServerErrorRetried ==
    \A t \in BatchTasks :
       /\ tasks[t].pc = "server_sleep" =>
             /\ hist[t].last_answer = "server_error"
             /\ tasks[t].sleeping = config.server_error_wait_time
       /\ hist[t].last_answer = "server_error" =>
             /\ InLoop(t)
             /\ results[t] = NoResult
             /\ tasks[t].cursor = hist[t].last_request
             /\ tasks[t].pages_processed = hist[t].pages_saved
             /\ tasks[t].repos_collected = hist[t].persisted
             /\ tasks[t].current_stats.failed_queries = batch.stats.failed_queries
             /\ tasks[t].current_stats.total_api_calls = batch.stats.total_api_calls + 1

\* the request for the second page is about to be sent again after a server error
C7_Witness ==
    \E t \in BatchTasks :
       /\ tasks[t].pc = "request"
       /\ hist[t].last_answer = "server_error"
       /\ hist[t].pages_saved = 1
       /\ tasks[t].cursor = EndCursorAfter(NullCursor)

(***************************************************************************)
(* C8: a query is in its loop only while every page so far had entities    *)
(* and a next page and fewer than max_pages_per_query pages are saved; it  *)
(* never saves more than max_pages_per_query pages; and a query that meets *)
(* only finitely many server errors is in the end out of its loop.         *)
(***************************************************************************)
C8_StopState ==
    \A t \in BatchTasks :
       /\ hist[t].pages_saved <= config.max_pages_per_query
       /\ hist[t].last_answer \in { "empty", "last_page" } => tasks[t].pc = "done"
       /\ hist[t].pages_saved = config.max_pages_per_query => ~InLoop(t)
       /\ InLoop(t) => hist[t].last_answer \in { "none", "more", "server_error" }

C8_PaginationStops ==
    /\ []C8_StopState
    /\ \A t \in Slots :
          (<>[](hist[t].last_answer # "server_error")) => <>[](~InLoop(t))

\* a query stopped at an empty page that announced a next page, with page budget
\* left
C8_Witness ==
    \E t \in BatchTasks :
       /\ tasks[t].pc = "done"
       /\ hist[t].last_answer = "empty"
       /\ hist[t].pages_saved = 1
       /\ config.max_pages_per_query = 2
       /\ hist[t].last_request # NullCursor

(***************************************************************************)
(* C9 as the claim has it: a query that returned records one successful    *)
(* query if an entity was saved during it, and none if no entity was.      *)
(***************************************************************************)
C9_SuccessfulIffPersisted ==
    \A t \in BatchTasks :
       results[t].kind = "tuple" =>
          results[t].stats.successful_queries - batch.stats.successful_queries =
             IF hist[t].persisted > 0 THEN 1 ELSE 0

(***************************************************************************)
(* C9: a query that returned records one successful query if it returned   *)
(* a positive number of repositories, that is if an entity was saved       *)
(* during it and it did not end on an access restriction; else it records  *)
(* no successful query.                                                    *)
(***************************************************************************)
C9_SuccessfulIffReturnedPositive ==
    \A t \in BatchTasks :
       results[t].kind = "tuple" =>
          /\ results[t].repos =
                IF hist[t].last_answer = "access" THEN 0 ELSE hist[t].persisted
          /\ results[t].stats.successful_queries - batch.stats.successful_queries =
                IF results[t].repos > 0 THEN 1 ELSE 0

\* a query returned after a saved page and an access restriction on the next
C9_Witness ==
    \E t, u \in BatchTasks :
       /\ results[t].kind = "tuple"
       /\ hist[t].persisted > 0
       /\ hist[t].last_answer = "access"
       /\ results[u].kind = "tuple"
       /\ hist[u].last_answer = "empty"
       /\ hist[u].persisted = 0

(***************************************************************************)
(* C10: the pauses a query records are as many as its responses with       *)
(* remaining < rate_limit_threshold, it slept rate_limit_wait_time for     *)
(* each of them, and every entity a response delivered was saved and       *)
(* counted, whether the response was below the threshold or not.           *)
(***************************************************************************)
C10_PauseBelowThreshold ==
    \A t \in BatchTasks :
       /\ hist[t].rate_slept = config.rate_limit_wait_time * hist[t].low_responses
       /\ hist[t].persisted = hist[t].delivered
       /\ InLoop(t) =>
             /\ tasks[t].current_stats.rate_limit_pauses =
                   batch.stats.rate_limit_pauses + hist[t].low_responses
             /\ tasks[t].repos_collected = hist[t].delivered
       /\ results[t].kind = "tuple" =>
             /\ results[t].stats.rate_limit_pauses =
                   batch.stats.rate_limit_pauses + hist[t].low_responses
             /\ hist[t].last_answer # "access" => results[t].repos = hist[t].delivered

\* of the two pages of a query one came with remaining = threshold and one with
\* remaining below it: one pause, and the entities of both pages
C10_Witness ==
    \E t \in BatchTasks :
       /\ results[t].kind = "tuple"
       /\ hist[t].pages_saved = 2
       /\ hist[t].low_responses = 1
       /\ results[t].repos = 6
       /\ stub.remaining = { config.rate_limit_threshold - 1, config.rate_limit_threshold }

(***************************************************************************)
(* C11: from every state of a lineage and for every batch_size,            *)
(* generate_batch returns k <= batch_size strategies made one after the    *)
(* other, each from the state the one before left (so the new state holds  *)
(* exactly their k keys more); it made batch_size attempts when            *)
(* k = batch_size and k + 1 attempts else, the last of which failed in the *)
(* state the k strategies left.                                            *)
(***************************************************************************)
C11_BatchStopsAtFirstFailure ==
    \A n \in 0..MaxBatchSize :
       \A r \in generate_batch(query_generator, n) :
          LET k == Len(r[1])
              keys == { ComboKey(r[1][i].dimensions) : i \in DOMAIN r[1] }
          IN /\ k <= n
             /\ r[3] = IF k = n THEN n ELSE k + 1
             /\ r[2].used_combinations = query_generator.used_combinations \cup keys
             /\ Cardinality(r[2].used_combinations) =
                   Cardinality(query_generator.used_combinations) + k
             /\ r[2].coverage_stats = query_generator.coverage_stats
             /\ k < n => \E f \in generate_single_query(r[2]) : f[1] = None /\ f[2] = r[2]

\* after a batch was returned, a call for the largest batch returns one strategy
\* and stops at its second attempt
C11_Witness ==
    /\ issued_count >= 1
    /\ \E r \in generate_batch(query_generator, MaxBatchSize) :
          Len(r[1]) = 1 /\ r[3] = 2 /\ MaxBatchSize > 1

(***************************************************************************)
(* C12: along a lineage the strategies returned are never more than the    *)
(* combination keys of the catalog; once every key is used every           *)
(* generate_batch returns the empty list; and from some call on the count  *)
(* of strategies returned stays the same for ever, that is every further   *)
(* generate_batch returns the empty list.                                  *)
(***************************************************************************)
C12_Keys == { ComboKey(d) : d \in RandomDraws(query_generator) }

C12_Bounded ==
    /\ issued_count <= Cardinality(C12_Keys)
    /\ issued_keys \subseteq C12_Keys
    /\ query_generator.used_combinations = C12_Keys =>
          \A n \in 0..MaxBatchSize :
             \A r \in generate_batch(query_generator, n) :
                r[1] = <<>> /\ r[2] = query_generator

C12_FinitelyManyStrategies ==
    /\ []C12_Bounded
    /\ \E c \in 0..MaxIssued : <>[](issued_count = c)

\* each of the four keys of the catalog was returned once, and the call after
\* that returned the empty list
C12_Witness ==
    /\ Cardinality(C12_Keys) = 4
    /\ issued_count = 4
    /\ query_generator.used_combinations = C12_Keys
    /\ queries = <<>>

(***************************************************************************)
(* C13: the orchestrator reads the stored count, and starts a batch, only  *)
(* when no query of an earlier batch is waiting or running; a batch runs   *)
(* only after a check that saw less than the target and is left only when  *)
(* execute_batch has returned with every query finished, whatever the      *)
(* stored count has become; and the first check that sees a count >= the   *)
(* target ends the loop without starting anything.                         *)
(***************************************************************************)
C13_BetweenBatches ==
    /\ orch.pc # "batch" =>
          /\ batch.pc = "idle"
          /\ \A t \in Slots : tasks[t].pc = "none"
    /\ orch.pc = "batch" =>
          /\ batch.pc # "idle"
          /\ orch.current_count < config.target_total_repos
    /\ batch.pc = "returned" =>
          \A t \in BatchTasks : tasks[t].pc \in { "done", "raised" }
    /\ (orch.pc = "loop" /\ orch.iterations > 0) =>
          orch.current_count < config.target_total_repos

C13_Step ==
    /\ (orch.pc = "loop" /\ count_repositories(db) >= config.target_total_repos) =>
          /\ orch'.pc = "final"
          /\ UNCHANGED <<genVars, crawlVars>>
    /\ (orch.pc = "loop" /\ orch'.pc = "batch") =>
          /\ orch'.current_count = count_repositories(db)
          /\ \A t \in Slots : tasks'[t].pc \in { "none", "acquire" }
    /\ orch.pc = "batch" =>
          /\ orch'.pc \in { "batch", "loop" }
          /\ orch'.pc = "loop" => batch.pc = "returned"

C13_NoPipelining == []C13_BetweenBatches /\ [][C13_Step]_vars

\* the stored count has reached the target while a query of the batch is still
\* in its loop and its sibling has returned
C13_Witness ==
    /\ orch.pc = "batch"
    /\ count_repositories(db) >= config.target_total_repos
    /\ \E t, u \in BatchTasks : InLoop(t) /\ tasks[u].pc = "done"

C15_PrimaryCountersUntouched ==
    \A i \in DOMAIN query_generator.dimensions :
       LET d == query_generator.dimensions[i]
       IN (d.is_primary /\ d.name \in DOMAIN query_generator.coverage_stats) =>
             \A v \in DOMAIN query_generator.coverage_stats[d.name] :
                query_generator.coverage_stats[d.name][v] = 0

(***************************************************************************)
(* C16: at every state of a lineage, update_coverage for a strategy A and  *)
(* a count a adds a to the counter of every pair of A that the statistics  *)
(* have and changes nothing else, and the updates for A with a and for B   *)
(* with b give the same generator state in either order. A and B range     *)
(* over one strategy for each key of the catalog and a foreign one.        *)
(***************************************************************************)
C16_Strategies ==
    LET draws == RandomDraws(query_generator)
        keys == { ComboKey(d) : d \in draws }
        onePerKey == { CHOOSE d \in draws : ComboKey(d) = k : k \in keys }
    IN { QueryStrategy(build_query(d), d, 5) : d \in onePerKey \cup { ForeignDimensions } }

C16_UpdateAddsAndCommutes ==
    LET cs == query_generator.coverage_stats
    IN \A A \in C16_Strategies : \A a \in 0..MaxReposFound :
          LET new == update_coverage(query_generator, A, a)
          IN /\ new.used_combinations = query_generator.used_combinations
             /\ new.dimensions = query_generator.dimensions
             /\ DOMAIN new.coverage_stats = DOMAIN cs
             /\ \A d \in DOMAIN cs :
                   /\ DOMAIN new.coverage_stats[d] = DOMAIN cs[d]
                   /\ \A v \in DOMAIN cs[d] :
                         new.coverage_stats[d][v] =
                            cs[d][v] + (IF <<d, v>> \in ComboKey(A.dimensions)
                                        THEN a ELSE 0)
             /\ \A B \in C16_Strategies : \A b \in 0..MaxReposFound :
                   update_coverage(new, B, b) =
                      update_coverage(update_coverage(query_generator, B, b), A, a)

\* updates for two strategies that share a pair have been applied: a counter is at
\* 2, another at 1, and one was never credited
C16_Witness ==
    LET cs == query_generator.coverage_stats
        counters == { <<d, v>> \in UNION { { <<dd, vv>> : vv \in DOMAIN cs[dd] }
                                          : dd \in DOMAIN cs } : TRUE }
    IN /\ \E p \in counters : cs[p[1]][p[2]] = 2
       /\ \E p \in counters : cs[p[1]][p[2]] = 1
       /\ \E p \in counters : cs[p[1]][p[2]] = 0

(***************************************************************************)
(* C17: two generate_batch calls from the same state with the same         *)
(* batch_size whose random constructions accepted the same draws and       *)
(* failed at the same attempt return the same strategies and the same      *)
(* state: nothing but the draws decides the result. A strategy of the      *)
(* random construction is one of priority 5, and its dimensions are the    *)
(* draw it accepted.                                                       *)
(***************************************************************************)
C17_SameDraws(r1, r2) ==
    /\ Len(r1[1]) = Len(r2[1])
    /\ r1[3] = r2[3]
    /\ \A i \in DOMAIN r1[1] :
          (r1[1][i].priority = 5 \/ r2[1][i].priority = 5) =>
             r1[1][i].dimensions = r2[1][i].dimensions

C17_Reproducible ==
    \A n \in 0..MaxBatchSize :
       \A r1, r2 \in generate_batch(query_generator, n) :
          C17_SameDraws(r1, r2) => r1 = r2

\* from a state reached by earlier calls, two calls with different draws return
\* different lists: a targeted strategy followed by different random ones
C17_Witness ==
    /\ issued_count >= 1
    /\ \E r1, r2 \in generate_batch(query_generator, MaxBatchSize) :
          /\ r1 # r2
          /\ Len(r1[1]) = Len(r2[1])
          /\ Len(r1[1]) >= 2
          /\ r1[1][1] = r2[1][1]
          /\ r1[1][1].priority # 5
          /\ r1[1][2].priority = 5
          /\ r2[1][2].priority = 5

(***************************************************************************)
(* C18: the crawl_runs table is empty until the loop is left and the final *)
(* report is made, and from then on holds one row: the coverage report of  *)
(* the generator the loop ended with and the stored count. The step after  *)
(* either exit of the loop is the one that writes it.                      *)
(***************************************************************************)
C18_OneRowWhenDone ==
    /\ Len(crawl_runs) = IF orch.pc = "done" THEN 1 ELSE 0
    /\ orch.pc = "done" =>
          crawl_runs[1] = [coverage_report |-> get_coverage_report(query_generator),
                           total_repos |-> count_repositories(db)]

C18_ExitStep ==
    orch.pc = "final" =>
       /\ orch'.pc = "done"
       /\ crawl_runs' = <<[coverage_report |-> get_coverage_report(query_generator),
                           total_repos |-> count_repositories(db)]>>
       /\ UNCHANGED <<genVars, crawlVars>>

C18_FinalReportOnce == []C18_OneRowWhenDone /\ [][C18_ExitStep]_vars

\* the target was reached in the second batch, after which a periodic report was
\* printed, and the final report is saved
C18_Witness ==
    /\ orch.pc = "done"
    /\ orch.reports_printed = 1
    /\ orch.batch_count = 2
    /\ Len(crawl_runs) = 1
    /\ crawl_runs[1].total_repos >= config.target_total_repos
    /\ crawl_runs[1].coverage_report.total_queries = 2

(***************************************************************************)
(* C19: however the saves of concurrent queries follow one another, the    *)
(* table holds one row for each id that was saved, however often it was    *)
(* saved, and count_repositories is the number of these ids; every save    *)
(* of a page leaves in the row of each of its ids the star count of that   *)
(* page, so a row holds the star count of the latest save, and no other    *)
(* step changes the table.                                                 *)
(***************************************************************************)
C19_Ids == { StubPages3[i].id : i \in DOMAIN StubPages3 }

C19_OneRowPerId ==
    LET savers == { t \in Slots : hist[t].pages_saved > 0 }
    IN /\ DOMAIN db = IF savers = {} THEN {} ELSE C19_Ids
       /\ count_repositories(db) = IF savers = {} THEN 0 ELSE Cardinality(C19_Ids)
       /\ savers # {} =>
             \E t \in savers : \A id \in C19_Ids : db[id].stars = hist[t].saved_stars

C19_SaveStep ==
    IF \E t \in Slots : hist'[t].pages_saved > hist[t].pages_saved
    THEN \A t \in Slots :
            hist'[t].pages_saved > hist[t].pages_saved =>
               /\ DOMAIN db' = C19_Ids
               /\ \A id \in C19_Ids : db'[id].stars = hist'[t].saved_stars
    ELSE db' = db

C19_LatestSaveWins == []C19_OneRowPerId /\ [][C19_SaveStep]_vars

\* two queries in their loops have each saved the page, one with 1 star and one
\* with 2, and the rows hold 1 star
C19_Witness ==
    \E t, u \in BatchTasks :
       /\ InLoop(t) /\ InLoop(u)
       /\ hist[t].saved_stars = 1
       /\ hist[u].saved_stars = 2
       /\ hist[t].persisted + hist[u].persisted = 2 * Cardinality(C19_Ids)
       /\ count_repositories(db) = Cardinality(C19_Ids)
       /\ \A id \in C19_Ids : db[id].stars = 1

(***************************************************************************)
(* C20: for every non-primary target dimension T, the combination of       *)
(* targeted construction is every primary dimension with its fixed value,  *)
(* T with its least-used value, and the first two non-primary dimensions   *)
(* other than T in catalog order, each with its least-used value. When     *)
(* this combination was not used before, the strategy returned has exactly *)
(* these dimensions, each once, its priority is 10 minus their number, and *)
(* the state returned differs from the state given only by having the      *)
(* combination among the used ones; when it was used, nothing is returned  *)
(* and the state is the one given.                                         *)
(***************************************************************************)
C20_LeastUsed(state, d) ==
    LET cnt(i) == state.coverage_stats[d.name][d.values[i]]
        least == { i \in DOMAIN d.values : \A j \in DOMAIN d.values : cnt(i) <= cnt(j) }
    IN d.values[CHOOSE i \in least : \A j \in least : i <= j]

C20_Others(state, T) ==
    LET dims == state.dimensions
        other(i) == ~dims[i].is_primary /\ dims[i].name # T
    IN { i \in DOMAIN dims :
           other(i) /\ Cardinality({ j \in 1..(i - 1) : other(j) }) < 2 }

C20_Expected(state, T) ==
    LET dims == state.dimensions
    IN { <<dims[i].name, dims[i].values[1]>> : i \in { j \in DOMAIN dims : dims[j].is_primary } }
       \cup { <<dims[i].name, C20_LeastUsed(state, dims[i])>> :
                 i \in { j \in DOMAIN dims : dims[j].name = T } }
       \cup { <<dims[i].name, C20_LeastUsed(state, dims[i])>> : i \in C20_Others(state, T) }

C20_TargetedContents ==
    \A i \in DOMAIN query_generator.dimensions :
       LET T == query_generator.dimensions[i].name
           expected == C20_Expected(query_generator, T)
           r == create_targeted_query(query_generator, T)
       IN ~query_generator.dimensions[i].is_primary =>
            IF expected \in query_generator.used_combinations
            THEN r = <<None, query_generator>>
            ELSE /\ r[1] # None
                 /\ SeqToSet(r[1].dimensions) = expected
                 /\ Len(r[1].dimensions) = Cardinality(expected)
                 /\ r[1].priority = 10 - Cardinality(expected)
                 /\ r[2] = [query_generator EXCEPT !.used_combinations = @ \cup {expected}]

\* the strategy returned last targets the last dimension of the catalog: it has
\* the primary dimension, the target, and the first two of the three other
\* dimensions, each with its second value because the first values were
\* credited before; its priority is 6 and its combination is marked used
C20_Witness ==
    /\ queries # <<>>
    /\ SeqToSet(queries[1].dimensions) =
          { <<"base", "is:public">>, <<"activity", "archived:true">>,
            <<"stars", "stars:11..50">>, <<"created", "created:>2023-01-01">> }
    /\ queries[1].priority = 6
    /\ SeqToSet(queries[1].dimensions) \in query_generator.used_combinations
    /\ query_generator.coverage_stats["stars"]["stars:0..10"] > 0
    /\ query_generator.coverage_stats["created"]["created:<2015-01-01"] > 0

(***************************************************************************)
(* C21: single-query generation tries the non-primary dimensions as        *)
(* targets in ascending order of (sum of the counts) / (number of values), *)
(* ties in catalog order, and returns the strategy of the first target     *)
(* whose combination is unused, with the least-used value (minimum count,  *)
(* earliest in the catalog among ties) of each of its dimensions; when the *)
(* combination of every target is used, what it returns is not a targeted  *)
(* strategy.                                                               *)
(***************************************************************************)
C21_Sum(state, i) ==
    LET d == state.dimensions[i]
        cnt == [k \in DOMAIN d.values |-> state.coverage_stats[d.name][d.values[k]]]
        RECURSIVE upTo(_)
        upTo(k) == IF k = 0 THEN 0 ELSE cnt[k] + upTo(k - 1)
    IN upTo(Len(d.values))

\* dimension i is tried before dimension j
C21_Before(state, i, j) ==
    LET li == Len(state.dimensions[i].values)
        lj == Len(state.dimensions[j].values)
        si == C21_Sum(state, i)
        sj == C21_Sum(state, j)
    IN \/ si * lj < sj * li
       \/ si * lj = sj * li /\ i < j

C21_Candidates(state) ==
    { i \in DOMAIN state.dimensions :
        /\ ~state.dimensions[i].is_primary
        /\ C20_Expected(state, state.dimensions[i].name) \notin state.used_combinations }

C22_NonPrimary(state) == { i \in DOMAIN state.dimensions : ~state.dimensions[i].is_primary }

C22_TargetedFails(state) ==
    \A i \in C22_NonPrimary(state) :
       create_targeted_query(state, state.dimensions[i].name)[1] = None

C22_RandomStrategy(state, q) ==
    LET dims == state.dimensions
        names == { q.dimensions[k][1] : k \in DOMAIN q.dimensions }
        N == Cardinality(C22_NonPrimary(state))
    IN /\ q.priority = 5
       /\ Cardinality(names) = Len(q.dimensions)
       /\ \A i \in DOMAIN dims :
             dims[i].is_primary => <<dims[i].name, dims[i].values[1]>> \in SeqToSet(q.dimensions)
       /\ Cardinality({ i \in C22_NonPrimary(state) : dims[i].name \in names }) = Min(3, N)
       /\ \A k \in DOMAIN q.dimensions :
             \E i \in DOMAIN dims :
                /\ dims[i].name = q.dimensions[k][1]
                /\ q.dimensions[k][2] \in SeqToSet(dims[i].values)

C22_RandomOnlyAfterTargeted ==
    LET state == query_generator
        att == create_random_query_attempts(state)
    IN /\ att.found = { r[1] : r \in create_random_query(state) } \ { None }
       /\ (\E e \in att.ends : ~e[1]) <=> (<<None, state>> \in create_random_query(state))
       /\ \A e \in att.ends :
             /\ e[2] \in 1..50
             /\ ~e[1] => e[2] = 50
       /\ \A r \in create_random_query(state) :
             IF r[1] = None
             THEN r[2] = state
             ELSE /\ C22_RandomStrategy(state, r[1])
                  /\ ComboKey(r[1].dimensions) \notin state.used_combinations
                  /\ r[2] = [state EXCEPT !.used_combinations =
                                             @ \cup { ComboKey(r[1].dimensions) }]
       /\ \A r \in generate_single_query(state) :
             (r[1] = None \/ r[1].priority = 5) =>
                /\ C22_TargetedFails(state)
                /\ r \in create_random_query(state)
       /\ \A n \in 1..(MaxIssued4 - issued_count) :
             \A b \in generate_batch(state, n) :
                b[1] = <<>> =>
                   /\ C22_TargetedFails(state)
                   /\ <<None, state>> \in create_random_query(state)
                   /\ b[2] = state

\* the last batch holds a randomized strategy of the primary and three other
\* dimensions, and in the state reached targeted construction gives nothing and
\* randomized construction can succeed or collide 50 times
C22_Witness ==
    /\ \E i \in DOMAIN queries :
          /\ queries[i].priority = 5
          /\ Len(queries[i].dimensions) = 4
          /\ ComboKey(queries[i].dimensions) \in query_generator.used_combinations
    /\ C22_TargetedFails(query_generator)
    /\ <<FALSE, 50>> \in create_random_query_attempts(query_generator).ends
    /\ <<TRUE, 50>> \in create_random_query_attempts(query_generator).ends

(***************************************************************************)
(* C23: in every state of a generator lineage every non-primary dimension  *)
(* has a counter for each of its catalog values and every counter is a     *)
(* natural number; no generate_batch and no update_coverage with           *)
(* repos_found >= 0 removes a counter or makes one smaller.                *)
(***************************************************************************)
C23_CountersComplete ==
    LET dims == query_generator.dimensions
        cs == query_generator.coverage_stats
    IN /\ \A i \in DOMAIN dims :
             ~dims[i].is_primary =>
                /\ dims[i].name \in DOMAIN cs
                /\ \A k \in DOMAIN dims[i].values : dims[i].values[k] \in DOMAIN cs[dims[i].name]
       /\ \A d \in DOMAIN cs : \A v \in DOMAIN cs[d] : cs[d][v] \in Nat

C23_NoDecrease ==
    LET cs == query_generator.coverage_stats
        after == query_generator'.coverage_stats
    IN \A d \in DOMAIN cs :
          /\ d \in DOMAIN after
          /\ \A v \in DOMAIN cs[d] : v \in DOMAIN after[d] /\ after[d][v] >= cs[d][v]

C23_CountersOnlyGrow == []C23_CountersComplete /\ [][C23_NoDecrease]_vars

\* strategies were returned, one value of a dimension was credited twice and
\* another value of the catalog was never credited
C23_Witness ==
    LET cs == query_generator.coverage_stats
    IN /\ issued_count > 0
       /\ \E d \in DOMAIN cs : \E v, w \in DOMAIN cs[d] : cs[d][v] = MaxCoverage /\ cs[d][w] = 0

(***************************************************************************)
(* C24: in every iteration that passes the target check and follows        *)
(* another iteration, the stagnation counter becomes 0 if the count read   *)
(* differs from the count the previous iteration read and grows by 1 if it *)
(* is the same; an iteration emits the warning only if the count read was  *)
(* the same as the previous iteration's in more than stagnation_threshold  *)
(* consecutive iterations ending with this one. The code compares the      *)
(* count of the first iteration with the initial last_count = 0, so on an  *)
(* empty table the warning comes one iteration earlier.                    *)
(***************************************************************************)
C24_IterationStep ==
    (orch'.iterations = orch.iterations + 1 /\ orch'.generate_calls = orch.generate_calls + 1) =>
       /\ orch.iterations >= 1 =>
             orch'.stagnation_counter =
                 IF orch'.current_count = orch.current_count
                 THEN orch.stagnation_counter + 1 ELSE 0
       /\ orch'.warnings > orch.warnings =>
             orch'.unchanged_run > config.stagnation_threshold

C24_StagnationTracked == [][C24_IterationStep]_vars

(***************************************************************************)
(* C25: the orchestrator asks the generator for max_concurrent_queries     *)
(* strategies, and only between batches. The counters change only in the   *)
(* step that follows the return of execute_batch, when no query of the     *)
(* batch is running, and before the next generate_batch; that step adds to *)
(* each counter floor(r / n) once for every strategy of the batch that     *)
(* holds its pair, where n is the number of strategies of the batch and r  *)
(* the total execute_batch returned, and r >= 0.                           *)
(***************************************************************************)
C25_Holders(d, v) ==
    Cardinality({ i \in DOMAIN queries : <<d, v>> \in SeqToSet(queries[i].dimensions) })

C25_Step ==
    LET cs == query_generator.coverage_stats
        after == query_generator'.coverage_stats
        returned == orch.pc = "batch" /\ batch.pc = "returned" /\ orch'.pc = "loop"
    IN /\ orch'.generate_calls # orch.generate_calls =>
             /\ orch.pc = "loop"
             /\ after = cs
             /\ \E r \in generate_batch(query_generator, config.max_concurrent_queries) :
                   queries' = r[1] /\ query_generator' = r[2]
       /\ after # cs => returned
       /\ returned =>
             /\ \A t \in Slots : ~InLoop(t) /\ tasks[t].pc # "acquire"
             /\ batch.total_repos >= 0
             /\ queries' = queries
             /\ \A d \in DOMAIN cs : \A v \in DOMAIN cs[d] :
                   after[d][v] =
                      cs[d][v] + C25_Holders(d, v) * (batch.total_repos \div Len(queries))

C25_CoverageFoldedEvenly == [][C25_Step]_vars

\* a batch of two strategies, one query of which collected the page of three
\* and the other nothing, returned 3, and each strategy was credited with 1
C25_Witness ==
    /\ orch.pc = "loop"
    /\ orch.batch_count = 1
    /\ Len(queries) = 2
    /\ orch.stats.successful_queries = 1
    /\ count_repositories(db) = Len(StubPages3)
    /\ query_generator.coverage_stats["base"]["is:public"] = 2
    /\ \A v \in DOMAIN query_generator.coverage_stats["size"] :
          query_generator.coverage_stats["size"][v] = 1

(***************************************************************************)
(* C26: a query makes its requests one after another, each answered before *)
(* the next is made: the first carries no cursor, a request that follows a *)
(* server error carries the cursor of the request that failed, and any     *)
(* other request follows a page that was not empty and announced a next    *)
(* page, and carries the endCursor of that page, which is the last page    *)
(* received that was not empty. After any other answer the query makes no  *)
(* request. The queries of a batch end in any order.                       *)
(***************************************************************************)
C26_RequestStep ==
    \A t \in Slots :
       (hist'[t] # hist[t] /\ batch' = batch) =>
          LET carried == hist'[t].last_request
          IN /\ tasks[t].pc = "request"
             /\ carried = tasks[t].cursor
             /\ CASE hist[t].last_answer = "none" -> carried = NullCursor
                  [] hist[t].last_answer = "server_error" -> carried = hist[t].last_request
                  [] hist[t].last_answer = "more" ->
                        carried = hist[t].last_end_cursor /\ carried # hist[t].last_request
                  [] OTHER -> FALSE

C26_PagesCursorChained == [][C26_RequestStep]_vars

\* the second query of the batch has ended while the first, after a page with a
\* next page, sleeps after a server error on its request for the second page
C26_Witness ==
    /\ tasks[2].pc = "done"
    /\ tasks[1].pc = "server_sleep"
    /\ hist[1].pages_saved = 1
    /\ hist[1].last_answer = "server_error"
    /\ hist[1].last_request = hist[1].last_end_cursor
    /\ hist[1].last_request # NullCursor

(***************************************************************************)
(* C27: every iteration that starts a batch adds at least one key to the   *)
(* used combinations, which are keys of the catalog, so the batches        *)
(* started are at most as many as the keys used and at most as many as the *)
(* keys of the catalog; and if every execute_batch call is followed by the *)
(* orchestrator going on, the loop is left and the run ends.               *)
(***************************************************************************)
C27_CatalogKeys == { ComboKey(d) : d \in RandomDraws(query_generator) }

C27_BatchesBounded ==
    /\ query_generator.used_combinations \subseteq C27_CatalogKeys
    /\ orch.batch_count <= Cardinality(query_generator.used_combinations)
    /\ orch.batch_count <= Cardinality(C27_CatalogKeys)

C27_BatchAddsKey ==
    orch'.batch_count # orch.batch_count =>
       /\ orch'.batch_count = orch.batch_count + 1
       /\ query_generator.used_combinations \subseteq query_generator'.used_combinations
       /\ query_generator'.used_combinations # query_generator.used_combinations

C27_EveryBatchReturns == (orch.pc = "batch") ~> (orch.pc # "batch")

C27_LoopTerminates ==
    /\ []C27_BatchesBounded
    /\ [][C27_BatchAddsKey]_vars
    /\ C27_EveryBatchReturns => <>[](orch.pc = "done")

\* the run has ended below the target after as many batches as the catalog has
\* keys: the generator had nothing more to give
C27_Witness ==
    /\ orch.pc = "done"
    /\ count_repositories(db) < config.target_total_repos
    /\ orch.batch_count = Cardinality(C27_CatalogKeys)
    /\ query_generator.used_combinations = C27_CatalogKeys

(***************************************************************************)
(* C28: at one coverage state, targeted construction for any of the first  *)
(* three non-primary dimensions of the catalog builds the same combination *)
(* key, so it has at most max(1, N - 2) keys for N non-primary dimensions. *)
(* In every batch generate_batch can return, the strategies whose key is   *)
(* one of these are targeted ones and at most max(1, N - 2), and every     *)
(* other strategy has priority 5, the mark of the randomized fallback.     *)
(***************************************************************************)
C28_TargetedKeys(state) ==
    { C20_Expected(state, state.dimensions[i].name) : i \in C22_NonPrimary(state) }

C28_FirstThree(state) ==
    { i \in C22_NonPrimary(state) :
        Cardinality({ j \in C22_NonPrimary(state) : j < i }) < 3 }

C28_TargetedShareOfBatch ==
    LET state == query_generator
        N == Cardinality(C22_NonPrimary(state))
        most == IF N - 2 > 1 THEN N - 2 ELSE 1
        fresh == [state EXCEPT !.used_combinations = {}]
        keys == C28_TargetedKeys(state)
    IN /\ \A i, j \in C28_FirstThree(state) :
             ComboKey(create_targeted_query(fresh, state.dimensions[i].name)[1].dimensions)
               = ComboKey(create_targeted_query(fresh, state.dimensions[j].name)[1].dimensions)
       /\ Cardinality(keys) <= most
       /\ \A n \in 0..(MaxIssued4 - issued_count) :
             \A b \in generate_batch(state, n) :
                /\ Cardinality({ i \in DOMAIN b[1] : b[1][i].priority # 5 }) <= most
                /\ \A i \in DOMAIN b[1] :
                      IF ComboKey(b[1][i].dimensions) \in keys
                      THEN b[1][i].priority = 10 - Len(b[1][i].dimensions)
                      ELSE b[1][i].priority = 5

\* a batch of three was returned at the initial coverage: two targeted
\* strategies, for the first and for the fourth non-primary dimension, and then
\* one of the randomized fallback
C28_Witness ==
    /\ Len(queries) = 3
    /\ issued_count = 3
    /\ queries[1].priority = 6 /\ queries[2].priority = 6 /\ queries[3].priority = 5
    /\ \E i \in DOMAIN queries[2].dimensions : queries[2].dimensions[i][1] = "activity"
    /\ C22_TargetedFails(query_generator)

(***************************************************************************)
(* C29: every strategy a generator lineage returns, targeted or random,    *)
(* has every primary dimension with its value and exactly min(3, N) of the *)
(* N non-primary dimensions, each once; so every key issued has            *)
(* P + min(3, N) pairs, and every strategy that is not of the randomized   *)
(* fallback has the priority 10 - (P + min(3, N)), P being the number of   *)
(* primary dimensions.                                                     *)
(***************************************************************************)
\* min(3, N) and P + min(3, N)
C29_Few(state) ==
    IF Cardinality(C22_NonPrimary(state)) < 3 THEN Cardinality(C22_NonPrimary(state)) ELSE 3

C29_Size(state) ==
    Len(state.dimensions) - Cardinality(C22_NonPrimary(state)) + C29_Few(state)

C29_Shape(state, q) ==
    LET dims == state.dimensions
        names == { q.dimensions[k][1] : k \in DOMAIN q.dimensions }
    IN /\ \A i \in DOMAIN dims :
             dims[i].is_primary => <<dims[i].name, dims[i].values[1]>> \in SeqToSet(q.dimensions)
       /\ Cardinality({ i \in C22_NonPrimary(state) : dims[i].name \in names })
             = C29_Few(state)
       /\ Len(q.dimensions) = C29_Size(state)
       /\ Cardinality(names) = C29_Size(state)
       /\ q.priority # 5 => q.priority = 10 - C29_Size(state)

C29_EveryStrategyHasThree ==
    /\ \A i \in DOMAIN queries : C29_Shape(query_generator, queries[i])
    /\ \A r \in generate_single_query(query_generator) :
          r[1] # None => C29_Shape(query_generator, r[1])
    /\ \A key \in issued_keys : Cardinality(key) = C29_Size(query_generator)

\* after a batch was credited, a batch holds a targeted strategy and a random
\* one, both of the primary dimension and three of the four others
C29_Witness ==
    /\ \E i, j \in DOMAIN queries :
          /\ queries[i].priority = 6 /\ Len(queries[i].dimensions) = 4
          /\ queries[j].priority = 5 /\ Len(queries[j].dimensions) = 4
    /\ issued_count > Len(queries)
    /\ MaxCounter(query_generator) > 0

(***************************************************************************)
(* C30: the statistics a query holds, and those it returns, have exactly   *)
(* one API call more than the statistics execute_batch was called with,    *)
(* however many requests and retries the query made; a returned query adds *)
(* at most one of a successful and a failed query. So execute_batch        *)
(* returns statistics with one API call more per returned query, in which  *)
(* successful_queries + failed_queries <= total_api_calls if that held for *)
(* its input, and none of whose counters is below the input's; and no step *)
(* of a query lowers a counter of its statistics.                          *)
(***************************************************************************)
C30_Fields == { "total_api_calls", "successful_queries", "failed_queries", "rate_limit_pauses" }

C30_Sound(stats) == stats.successful_queries + stats.failed_queries <= stats.total_api_calls

C30_Statistics ==
    /\ \A t \in BatchTasks :
          /\ InLoop(t) =>
                /\ tasks[t].current_stats.total_api_calls = batch.stats.total_api_calls + 1
                /\ tasks[t].current_stats.successful_queries = batch.stats.successful_queries
                /\ tasks[t].current_stats.failed_queries = batch.stats.failed_queries
          /\ results[t].kind = "tuple" =>
                LET successful == results[t].stats.successful_queries
                                     - batch.stats.successful_queries
                    failed == results[t].stats.failed_queries - batch.stats.failed_queries
                IN /\ results[t].stats.total_api_calls = batch.stats.total_api_calls + 1
                   /\ successful \in { 0, 1 }
                   /\ failed \in { 0, 1 }
                   /\ successful + failed <= 1
                   /\ results[t].stats.rate_limit_pauses >= batch.stats.rate_limit_pauses
    /\ batch.pc = "returned" =>
          /\ batch.final_stats.total_api_calls =
                batch.stats.total_api_calls
                   + Cardinality({ t \in BatchTasks : results[t].kind = "tuple" })
          /\ \A f \in C30_Fields : batch.final_stats[f] >= batch.stats[f]
          /\ C30_Sound(batch.stats) => C30_Sound(batch.final_stats)

C30_QueryStep ==
    \A t \in Slots :
       (InLoop(t) /\ tasks'[t].pc \in { "request", "server_sleep" }) =>
          \A f \in C30_Fields : tasks'[t].current_stats[f] >= tasks[t].current_stats[f]

C30_OneCallPerQuery == []C30_Statistics /\ [][C30_QueryStep]_vars

\* a batch has returned one query that saved two pages and one that saved a
\* page and met an access restriction on its second request: two API calls
\* more than the input
C30_Witness ==
    /\ batch.pc = "returned"
    /\ batch.final_stats.total_api_calls = batch.stats.total_api_calls + 2
    /\ batch.stats.total_api_calls > 0
    /\ \E t, u \in BatchTasks :
          /\ hist[t].pages_saved = 2
          /\ results[t].kind = "tuple"
          /\ hist[u].last_answer = "access"
          /\ hist[u].pages_saved = 1
====
